---- MODULE Spec2Model ----
(***************************************************************************)
(* A model of ssh-browser's session-and-task-dispatch engine and of the    *)
(* operations of its remote session:                                       *)
(*   src/src/ssh.rs  SSHConnection (the remote session)                    *)
(*   src/src/ui.rs   BackgroundWorker (task channel, worker thread, result *)
(*                   channel), send_task and poll_worker (the caller)      *)
(*                                                                         *)
(* The specifications share the definitions:                               *)
(*   Spec      the worker thread, the two mpsc channels and the caller     *)
(*             thread (send_task and the poll_worker loop); the caller may *)
(*             send any Task, as BackgroundWorker::send_task accepts;      *)
(*   FairSpec  the same threads with weak fairness of the worker thread    *)
(*             and of the caller's frame loop, the caller drawing its      *)
(*             tasks from FairTasks;                                       *)
(*   SpecConn  one SSHConnection value driven through its public methods;  *)
(*   SpecSteps one SSHConnection whose connect() is followed library call  *)
(*             by library call;                                            *)
(*   SpecList, SpecFile, SpecCreate, SpecRename, SpecCopy, SpecOffline     *)
(*             one SSHConnection acting on the server's files and on the   *)
(*             local files, each specification calling the methods named   *)
(*             at its definition;                                          *)
(*   SpecStats one SSHConnection fetching the server's statistics;         *)
(*   SpecBurst the threads of Spec with a worker that may hang in a call   *)
(*             and a caller that sends without regard to what is           *)
(*             outstanding; FairBurst the same without the hang and with   *)
(*             weak fairness of the worker thread only;                    *)
(*   SpecUI    the worker thread and the caller as render_ui drives it:    *)
(*             poll_worker on all the fields of UIState it assigns, and    *)
(*             the handlers of the widgets the state shows;                *)
(*   SpecNav   SpecUI with the navigation of the remote tree (typed path,  *)
(*             up, home, the button of a directory);                       *)
(*   FairUI    SpecUI with a user who stops pressing buttons, with weak    *)
(*             fairness of the worker thread and of the frame loop;        *)
(*   SpecExit  the threads of SpecBurst with the closing of the window:    *)
(*             the caller's channel ends are dropped and the worker's      *)
(*             loop ends;                                                  *)
(*   SpecSave  the connection form and the saved-connections file, in two  *)
(*             runs side by side that differ in the password typed.        *)
(*                                                                         *)
(* The remote server is the environment: the step at which connect() fails *)
(* (or that it succeeds) and the outcome of every remote call are chosen   *)
(* nondeterministically when the call is made. The files the server and    *)
(* the local disk hold at the start are chosen by the environment too, and *)
(* nobody else changes them afterwards.                                    *)
(*                                                                         *)
(* Ghost state, which the program does not hold: the submission number     *)
(* carried by a task and its result (field id), the facts recorded in a    *)
(* result about its execution (fields task, held, called, sess, before),   *)
(* the variables n_submitted, received_ids and hist, sc_calls and sc_pre,  *)
(* fs_last, fs_prev and fs_pre, the fields last and listed of ui, and in   *)
(* runs the fields started, file and sent.                                 *)
(***************************************************************************)
EXTENDS Integers, Sequences, FiniteSets, TLC

(* ------------------------------ bounds -------------------------------- *)

\* A widget handler sends a task only while fewer than MaxTasks tasks have
\* been submitted (poll_worker's follow-up tasks are sent regardless).
MaxTasks == 4

\* The caller sends a task only while fewer than MaxOutstanding tasks are
\* outstanding, that is submitted with their result not yet polled (the
\* channels themselves are unbounded).
MaxOutstanding == 2

\* Number of method calls made on the SSHConnection of SpecConn.
MaxCalls == 3

\* Number of download_file and upload_file calls that open their two files.
MaxTransfers == 2

\* The number of tasks the caller sends under FairBurst.
MaxBurst == 3

\* The number of connections the user saves under SpecSave.
MaxSaved == 2

\* Number of tasks submitted up to which the user of FairUI still presses
\* buttons.
MaxClicks == 3

(* ------------------------- program constants -------------------------- *)

\* The steps of SSHConnection::connect that can fail, in order:
\* 1 TcpStream::connect, 2 Session::new, 3 handshake, 4 userauth_password,
\* 5 authenticated(), 6 sftp().
ConnectSteps == 6

\* `let mut buffer = [0; 8192];` in download_file and upload_file.
BufferSize == 8192

\* The numbers of fields process_stats reads of the outputs of the cpu, mem
\* and disk commands: up to cpu_parts[15], mem_parts[5], disk_parts[4].
CpuFields  == 16
MemFields  == 6
DiskFields == 5

\* Option::None / Option::Some of a handle.
None == "None"
Some == "Some"

Hostnames == {"h"}
Usernames == {"u"}
Passwords == {"p"}
Ports == {22}

\* enum Task: the variant names.
OperationKinds ==
    {"ListDirectory", "CreateDirectory", "CreateFile", "DownloadFile",
     "UploadFile", "DeleteFile", "RenameFile", "ReadFile", "WriteFile"}

TaskKinds == {"Connect", "Disconnect"} \cup OperationKinds

\* enum TaskResult: the variant names.
ResultKinds ==
    {"ConnectResult", "ListDirectoryResult", "CreateDirectoryResult",
     "CreateFileResult", "DownloadFileResult", "UploadFileResult",
     "DeleteFileResult", "RenameFileResult", "ReadFileResult",
     "WriteFileResult", "DisconnectResult"}

\* The outcomes of a remote call on an initialised subsystem: success, or a
\* failure reported by the transport (its text is opaque: "<e>").
RemoteOutcomes == {"ok", "<e>"}

VARIABLES
    task_queue,     \* the Task channel: tasks sent and not yet received
    result_queue,   \* the TaskResult channel: results sent, not yet polled
    worker_pc,      \* the worker thread: "recv" (blocked in recv), "exec"
                    \* (in a match arm), "exited" (left the while loop)
    task,           \* the task bound by `while let Ok(task)`, or NoTask
    connection,     \* the worker's `connection: Option<SSHConnection>`
    ui_pc,          \* the caller thread: "poll" (in poll_worker's loop) or
                    \* "widgets" (in the rest of render_ui)
    connected,      \* UIState.connected
    n_submitted,    \* ghost: number of tasks sent so far
    received_ids,   \* ghost: ids of the results polled so far, in order
    hist,           \* ghost: summary of the tasks executed so far
    ui,             \* the fields of UIState that poll_worker and the widget
                    \* handlers assign, besides `connected`
    slots,          \* the caller's side of BackgroundWorker and App:
                    \* BackgroundWorker.connection and App.connection, and
                    \* whether task_sender and result_receiver still exist
    runs,           \* SpecSave: two runs of the connection form, side by
                    \* side, with the file each has written
    sc,             \* SpecConn: the SSHConnection under test
    sc_calls,       \* SpecConn ghost: the calls made on sc, in order
    sc_pre,         \* SpecConn ghost: sc as it was before the last call
    remote,         \* the server's file system: what each remote path holds
    localfs,        \* the local file system: what each local path holds
    xfer,           \* the download_file or upload_file call in progress
    fs_last,        \* ghost: the last call that returned, and its result
    fs_prev,        \* ghost: the call that returned before fs_last
    fs_pre          \* ghost: the state in which the call of fs_last was made

app_vars == <<ui, slots, runs>>
dispatch_vars ==
    <<task_queue, result_queue, worker_pc, task, connection, ui_pc,
      connected, n_submitted, received_ids, hist, app_vars>>
conn_vars == <<sc, sc_calls, sc_pre>>
fs_vars == <<remote, localfs, xfer, fs_last, fs_prev, fs_pre>>
vars == <<dispatch_vars, conn_vars, fs_vars>>

NoTask == [kind |-> "NoTask", id |-> 0, args |-> <<>>]

(* --------------------------- SSHConnection ---------------------------- *)

SSHConnection_new(hostname, username, password, port) ==
    [hostname |-> hostname, username |-> username, password |-> password,
     port |-> port, session |-> None, sftp |-> None]

\* The error text of the step of connect() that fails.
ConnectErrorText(step) ==
    CASE step = 1 -> "Connection error: <e>"
      [] step = 2 -> "Session creation error: <e>"
      [] step = 3 -> "Handshake error: <e>"
      [] step = 4 -> "Authentication error: <e>"
      [] step = 5 -> "Authentication failed. Check your username and password."
      [] step = 6 -> "SFTP initialization error: <e>"

\* connect(): fail_step = 0 when every step succeeds, else the first step
\* that fails. Every step before the two assignments returns early with `?`
\* or `return Err`, so a failure leaves self as it was.
SSHConnection_connect_session_first(conn, fail_step) ==
    IF fail_step = 0
    THEN [conn |-> [conn EXCEPT !.session = Some, !.sftp = Some],
          res  |-> "ok"]
    ELSE [conn |-> IF fail_step = ConnectSteps
                   THEN [conn EXCEPT !.session = Some]
                   ELSE conn,
          res  |-> ConnectErrorText(fail_step)]

SSHConnection_connect_without_sftp(conn, fail_step) ==
    IF fail_step = 0
    THEN [conn |-> [conn EXCEPT !.session = Some], res |-> "ok"]
    ELSE [conn |-> conn, res |-> ConnectErrorText(fail_step)]

SSHConnection_connect(conn, fail_step) ==
    IF fail_step = 0
    THEN [conn |-> [conn EXCEPT !.session = Some, !.sftp = Some],
          res  |-> "ok"]
    ELSE [conn |-> conn, res |-> ConnectErrorText(fail_step)]

SSHConnection_disconnect_keeps_session(conn) ==
    [conn EXCEPT !.sftp = None]

SSHConnection_disconnect(conn) ==
    [conn EXCEPT !.sftp = None, !.session = None]

\* The text a session operation returns when self.sftp is None.
NotInitializedText(kind) ==
    IF kind = "RenameFile" THEN "SFTP session not initialized."
    ELSE "SFTP subsystem not initialized."

\* The prefix the operation puts before the transport's error (the first
\* remote call of the operation is the one that fails here).
OperationErrorPrefix(kind) ==
    CASE kind = "ListDirectory"   -> "Failed to read directory: "
      [] kind = "CreateDirectory" -> "Failed to create directory: "
      [] kind = "CreateFile"      -> "Failed to create file: "
      [] kind = "DownloadFile"    -> "Failed to open remote file: "
      [] kind = "UploadFile"      -> "Failed to open remote file: "
      [] kind = "DeleteFile"      -> "Failed to delete file: "
      [] kind = "RenameFile"      -> "Failed to rename: "
      [] kind = "ReadFile"        -> "Failed to open file: "
      [] kind = "WriteFile"       -> "Failed to create file: "

\* A session operation (list_directory, create_directory, create_file,
\* download_file, upload_file, delete_file, rename, read_file, write_file):
\* "ok" or the error text. The session is borrowed immutably (&self).
SSHConnection_operation(conn, kind, outcome) ==
    IF conn.sftp = None THEN NotInitializedText(kind)
    ELSE IF outcome = "ok" THEN "ok"
    ELSE OperationErrorPrefix(kind) \o outcome

(* ------------------------------ channels ------------------------------ *)

\* std::sync::mpsc: send appends to the channel, recv / try_recv take the
\* oldest message. Both are atomic with respect to the other thread.
\* mpsc::channel() makes an asynchronous channel with an unbounded buffer:
\* a send finds room whatever the channel holds and never blocks.
Channel_full_rendezvous(q) == q # <<>>

Channel_full(q) == FALSE

Channel_send_front(q, m) == <<m>> \o q

Channel_send(q, m) == Append(q, m)

Channel_recv_newest(q) == [msg |-> q[Len(q)], rest |-> SubSeq(q, 1, Len(q) - 1)]

Channel_recv_peek(q) == [msg |-> Head(q), rest |-> q]

Channel_recv(q) == [msg |-> Head(q), rest |-> Tail(q)]

(* ----------------------- the worker's match arms ---------------------- *)

\* The worker's `connection`: None is <<>>, Some(conn) is <<c>> with c.conn
\* the SSHConnection and c.id (ghost) the id of the Connect task that built it.
NoConnection == <<>>

\* The TaskResult variant each arm of the match sends.
ResultVariant_CreateFileAsDirectory(kind) ==
    CASE kind = "Connect"         -> "ConnectResult"
      [] kind = "ListDirectory"   -> "ListDirectoryResult"
      [] kind = "CreateDirectory" -> "CreateDirectoryResult"
      [] kind = "CreateFile"      -> "CreateDirectoryResult"
      [] kind = "DownloadFile"    -> "DownloadFileResult"
      [] kind = "UploadFile"      -> "UploadFileResult"
      [] kind = "DeleteFile"      -> "DeleteFileResult"
      [] kind = "RenameFile"      -> "RenameFileResult"
      [] kind = "ReadFile"        -> "ReadFileResult"
      [] kind = "WriteFile"       -> "WriteFileResult"
      [] kind = "Disconnect"      -> "DisconnectResult"

ResultVariant(kind) ==
    CASE kind = "Connect"         -> "ConnectResult"
      [] kind = "ListDirectory"   -> "ListDirectoryResult"
      [] kind = "CreateDirectory" -> "CreateDirectoryResult"
      [] kind = "CreateFile"      -> "CreateFileResult"
      [] kind = "DownloadFile"    -> "DownloadFileResult"
      [] kind = "UploadFile"      -> "UploadFileResult"
      [] kind = "DeleteFile"      -> "DeleteFileResult"
      [] kind = "RenameFile"      -> "RenameFileResult"
      [] kind = "ReadFile"        -> "ReadFileResult"
      [] kind = "WriteFile"       -> "WriteFileResult"
      [] kind = "Disconnect"      -> "DisconnectResult"

\* The text each operation arm puts before the session's error with
\* map_err; the ListDirectory arm passes the error through.
MapErrPrefix(kind) ==
    CASE kind = "ListDirectory"   -> ""
      [] kind = "CreateDirectory" -> "Failed to create directory: "
      [] kind = "CreateFile"      -> "Failed to create file: "
      [] kind = "DownloadFile"    -> "Failed to download: "
      [] kind = "UploadFile"      -> "Failed to upload: "
      [] kind = "DeleteFile"      -> "Failed to delete: "
      [] kind = "RenameFile"      -> "Failed to rename: "
      [] kind = "ReadFile"        -> "Failed to read file: "
      [] kind = "WriteFile"       -> "Failed to write file: "

\* An arm yields the worker's next `connection` and the result it sends:
\* the variant (kind), "ok" or the error text (err), and the ghost facts
\* called (a method of an SSHConnection was invoked) and sess (the id of
\* the adopted session the arm used, 0 if none).

\* Task::Connect arm.
Arm_Connect_NeverAdopts(conn_opt, t, fail_step) ==
    LET conn == SSHConnection_new(t.args[1], t.args[2], t.args[3], t.args[4])
        r    == SSHConnection_connect(conn, fail_step)
    IN  [connection |-> conn_opt,
         kind   |-> ResultVariant("Connect"),
         err    |-> IF r.res = "ok" THEN "ok"
                    ELSE "Failed to connect: " \o r.res,
         called |-> TRUE,
         sess   |-> 0]

Arm_Connect_DropsOnFailure(conn_opt, t, fail_step) ==
    LET conn == SSHConnection_new(t.args[1], t.args[2], t.args[3], t.args[4])
        r    == SSHConnection_connect(conn, fail_step)
    IN  [connection |-> IF r.res = "ok"
                        THEN <<[conn |-> r.conn, id |-> t.id]>>
                        ELSE NoConnection,
         kind   |-> ResultVariant("Connect"),
         err    |-> IF r.res = "ok" THEN "ok"
                    ELSE "Failed to connect: " \o r.res,
         called |-> TRUE,
         sess   |-> 0]

Arm_Connect(conn_opt, t, fail_step) ==
    LET conn == SSHConnection_new(t.args[1], t.args[2], t.args[3], t.args[4])
        r    == SSHConnection_connect(conn, fail_step)
    IN  [connection |-> IF r.res = "ok"
                        THEN <<[conn |-> r.conn, id |-> t.id]>>
                        ELSE conn_opt,
         kind   |-> ResultVariant("Connect"),
         err    |-> IF r.res = "ok" THEN "ok"
                    ELSE "Failed to connect: " \o r.res,
         called |-> TRUE,
         sess   |-> 0]

\* The nine operation arms (ListDirectory .. WriteFile).
Arm_Operation_CallsWithoutSession(conn_opt, t, outcome) ==
    LET conn == IF conn_opt # NoConnection THEN conn_opt[1].conn
                ELSE SSHConnection_new("", "", "", 0)
        res  == SSHConnection_operation(conn, t.kind, outcome)
    IN  [connection |-> conn_opt,
         kind   |-> ResultVariant(t.kind),
         err    |-> IF res = "ok" THEN "ok"
                    ELSE MapErrPrefix(t.kind) \o res,
         called |-> TRUE,
         sess   |-> IF conn_opt # NoConnection THEN conn_opt[1].id ELSE 0]

Arm_Operation(conn_opt, t, outcome) ==
    IF conn_opt # NoConnection
    THEN LET res == SSHConnection_operation(conn_opt[1].conn, t.kind, outcome)
         IN  [connection |-> conn_opt,
              kind   |-> ResultVariant(t.kind),
              err    |-> IF res = "ok" THEN "ok"
                         ELSE MapErrPrefix(t.kind) \o res,
              called |-> TRUE,
              sess   |-> conn_opt[1].id]
    ELSE [connection |-> conn_opt,
          kind   |-> ResultVariant(t.kind),
          err    |-> "Not connected",
          called |-> FALSE,
          sess   |-> 0]

\* Task::Disconnect arm: connection.take(), disconnect() on the session
\* taken (which is then dropped), and the acknowledgement.
Arm_Disconnect_KeepsSession(conn_opt, t) ==
    [connection |-> IF conn_opt # NoConnection
                    THEN <<[conn_opt[1] EXCEPT
                              !.conn = SSHConnection_disconnect(@)]>>
                    ELSE conn_opt,
     kind   |-> ResultVariant("Disconnect"),
     err    |-> "ok",
     called |-> conn_opt # NoConnection,
     sess   |-> IF conn_opt # NoConnection THEN conn_opt[1].id ELSE 0]

Arm_Disconnect(conn_opt, t) ==
    [connection |-> NoConnection,
     kind   |-> ResultVariant("Disconnect"),
     err    |-> "ok",
     called |-> conn_opt # NoConnection,
     sess   |-> IF conn_opt # NoConnection THEN conn_opt[1].id ELSE 0]

(* --------------------------- the worker thread ------------------------ *)

\* `while let Ok(task) = task_receiver.recv()`: the loop asks for the next
\* task only at the top of an iteration, after the arm of the previous task
\* has sent its result.
RecvReady_Anytime(pc) == pc \in {"recv", "exec"}

RecvReady(pc) == pc = "recv"

\* Where the worker goes after an arm has sent its result: every arm falls
\* through to the end of the loop body, whatever the result.
AfterArm_BreakOnError(err) == IF err = "ok" THEN "recv" ELSE "exited"

AfterArm(err) == "recv"

\* `let _ = result_sender.send(...)`: every arm sends exactly one result.
Publish_OnlySuccess(q, r) == IF r.err = "ok" THEN Channel_send(q, r) ELSE q

Publish(q, r) == Channel_send(q, r)

\* The ghost summary after a task of kind k has run with result text err
\* and the ids of the session then adopted:
\*   connect  outcome of the most recent Connect task
\*   prev     outcome of the Connect task before that one
\*   ctl      kind of the most recent Connect or Disconnect task
\*   sess     id of the most recent successful Connect task
\*   fails    number of consecutive tasks, up to now, that ended in an error
\*   discs    number of consecutive Disconnect tasks, up to now
\*   open     a Connect task has succeeded and no Disconnect task has run
\*            since the last one that did
\*   lost     number of results whose send failed, the receiver being gone
\*   dropped  number of results that were buffered when the receiver went
HistAfter(h, t, err) ==
    [connect |-> IF t.kind = "Connect"
                 THEN (IF err = "ok" THEN "ok" ELSE "failed")
                 ELSE h.connect,
     prev    |-> IF t.kind = "Connect" THEN h.connect ELSE h.prev,
     ctl     |-> IF t.kind \in {"Connect", "Disconnect"} THEN t.kind ELSE h.ctl,
     sess    |-> IF t.kind = "Connect" /\ err = "ok" THEN t.id ELSE h.sess,
     fails   |-> IF err = "ok" THEN 0 ELSE h.fails + 1,
     discs   |-> IF t.kind = "Disconnect" THEN h.discs + 1 ELSE 0,
     open    |-> CASE t.kind = "Connect" /\ err = "ok" -> TRUE
                   [] t.kind = "Disconnect"            -> FALSE
                   [] OTHER                            -> h.open,
     lost    |-> h.lost,
     dropped |-> h.dropped]

\* The result record sent for `task` by an arm that yielded a.
ResultOf(a) ==
    [kind   |-> a.kind,
     err    |-> a.err,
     id     |-> task.id,
     task   |-> task.kind,
     held   |-> connection # NoConnection,
     called |-> a.called,
     sess   |-> a.sess,
     before |-> hist,
     path   |-> IF task.kind = "ListDirectory" THEN task.args ELSE <<>>]

WorkerRecv ==
    /\ RecvReady(worker_pc)
    /\ task_queue # <<>>
    /\ task' = Channel_recv(task_queue).msg
    /\ task_queue' = Channel_recv(task_queue).rest
    /\ worker_pc' = "exec"
    /\ UNCHANGED <<result_queue, connection, ui_pc, connected, n_submitted,
                   received_ids, hist, conn_vars, fs_vars, app_vars>>

\* The rest of an iteration once the arm has yielded a.
Finish(a) ==
    /\ ~Channel_full(result_queue)
    /\ connection' = a.connection
    /\ result_queue' = IF slots.result_receiver
                       THEN Publish(result_queue, ResultOf(a))
                       ELSE result_queue
    /\ hist' = [HistAfter(hist, task, a.err) EXCEPT
                   !.lost = IF slots.result_receiver THEN @ ELSE @ + 1]
    /\ worker_pc' = AfterArm(a.err)
    /\ task' = NoTask
    /\ UNCHANGED <<task_queue, ui_pc, connected, n_submitted, received_ids,
                   conn_vars, fs_vars, app_vars>>

WorkerConnect ==
    /\ worker_pc = "exec"
    /\ task.kind = "Connect"
    /\ \E fail_step \in 0..ConnectSteps :
           Finish(Arm_Connect(connection, task, fail_step))

WorkerOperation ==
    /\ worker_pc = "exec"
    /\ task.kind \in OperationKinds
    /\ \E outcome \in RemoteOutcomes :
           Finish(Arm_Operation(connection, task, outcome))

WorkerDisconnect ==
    /\ worker_pc = "exec"
    /\ task.kind = "Disconnect"
    /\ Finish(Arm_Disconnect(connection, task))

\* Receiver::recv on a channel whose buffer is q: it returns Err only when
\* every sender is gone and the buffer is empty.
Channel_disconnected_at_drop(q, sender) == ~sender

Channel_disconnected(q, sender) == ~sender /\ q = <<>>

\* `while let Ok(task) = task_receiver.recv()` gets Err: the loop and with
\* it the thread end.
WorkerExit ==
    /\ RecvReady(worker_pc)
    /\ Channel_disconnected(task_queue, slots.task_sender)
    /\ worker_pc' = "exited"
    /\ UNCHANGED <<task_queue, result_queue, task, connection, ui_pc,
                   connected, n_submitted, received_ids, hist, conn_vars,
                   fs_vars, app_vars>>

WorkerStep == WorkerRecv \/ WorkerConnect \/ WorkerOperation \/ WorkerDisconnect

(* --------------------------- the caller thread ------------------------ *)

\* The tasks a caller can build.
Tasks ==
    {[kind |-> "Connect", id |-> 0, args |-> <<h, u, p, port>>] :
        h \in Hostnames, u \in Usernames, p \in Passwords, port \in Ports}
    \cup {[kind |-> k, id |-> 0, args |-> <<>>] :
            k \in OperationKinds \cup {"Disconnect"}}

\* BackgroundWorker::send_task, stamped with the ghost submission number.
Enqueue(q, t, n) == Channel_send(q, [t EXCEPT !.id = n + 1])

\* A widget handler of render_ui sends a task drawn from S.
SendTaskFrom(S) ==
    /\ ui_pc = "widgets"
    /\ n_submitted < MaxTasks
    /\ n_submitted - Len(received_ids) < MaxOutstanding
    /\ ~Channel_full(task_queue)
    /\ \E t \in S :
           task_queue' = Enqueue(task_queue, t, n_submitted)
    /\ n_submitted' = n_submitted + 1
    /\ UNCHANGED <<result_queue, worker_pc, task, connection, ui_pc,
                   connected, received_ids, hist, conn_vars, fs_vars,
                   app_vars>>

SendTask == SendTaskFrom(Tasks)

\* The tasks the caller draws from under FairSpec: Connect, Disconnect, and
\* one operation of each behaviour in poll_worker (ListDirectory; CreateFile,
\* whose success makes poll_worker send a follow-up task; ReadFile, whose
\* success does not).
FairTasks ==
    {t \in Tasks :
        t.kind \in {"Connect", "Disconnect", "ListDirectory", "CreateFile",
                    "ReadFile"}}

SendTaskFair == SendTaskFrom(FairTasks)

\* The result variants whose success makes poll_worker list the directory.
RefreshingResults_with_ListDirectory ==
    {"ConnectResult", "ListDirectoryResult", "CreateDirectoryResult",
     "CreateFileResult", "UploadFileResult", "DeleteFileResult",
     "RenameFileResult"}

RefreshingResults_without_Delete ==
    {"ConnectResult", "CreateDirectoryResult", "CreateFileResult",
     "UploadFileResult", "RenameFileResult"}

RefreshingResults ==
    {"ConnectResult", "CreateDirectoryResult", "CreateFileResult",
     "UploadFileResult", "DeleteFileResult", "RenameFileResult"}

\* The task poll_worker sends while it handles result r, if any.
FollowUp(r) ==
    IF r.kind \in RefreshingResults /\ r.err = "ok"
    THEN <<[kind |-> "ListDirectory", id |-> 0, args |-> <<>>]>>
    ELSE <<>>

\* UIState.connected after poll_worker has handled result r.
ConnectedAfter(c, r) ==
    CASE r.kind = "ConnectResult"    -> (r.err = "ok")
      [] r.kind = "DisconnectResult" -> FALSE
      [] OTHER                       -> c

\* One iteration of poll_worker's `while let Ok(result) = try_recv()`, but
\* for the fields of `ui`; args is the argument of the ListDirectory sent.
PollRecvAt(args) ==
    /\ ui_pc = "poll"
    /\ result_queue # <<>>
    /\ LET r == Channel_recv(result_queue).msg
           f == FollowUp(r)
       IN  /\ result_queue' = Channel_recv(result_queue).rest
           /\ received_ids' = Append(received_ids, r.id)
           /\ connected' = ConnectedAfter(connected, r)
           /\ IF f # <<>>
              THEN /\ ~Channel_full(task_queue)
                   /\ task_queue' = Enqueue(task_queue,
                                            [f[1] EXCEPT !.args = args],
                                            n_submitted)
                   /\ n_submitted' = n_submitted + 1
              ELSE UNCHANGED <<task_queue, n_submitted>>
    /\ UNCHANGED <<worker_pc, task, connection, ui_pc, hist, conn_vars,
                   fs_vars, slots, runs>>

\* The iteration where the path sent is not followed.
PollRecvCore == PollRecvAt(<<>>)

\* The iteration as the specifications that do not follow `ui` see it.
PollRecv == PollRecvCore /\ UNCHANGED ui

\* try_recv finds the channel empty: poll_worker returns and render_ui goes
\* on to the widgets.
PollEmpty ==
    /\ ui_pc = "poll"
    /\ result_queue = <<>>
    /\ ui_pc' = "widgets"
    /\ UNCHANGED <<task_queue, result_queue, worker_pc, task, connection,
                   connected, n_submitted, received_ids, hist, conn_vars,
                   fs_vars, app_vars>>

\* render_ui returns; the next frame starts with poll_worker.
FrameEnd ==
    /\ ui_pc = "widgets"
    /\ ui_pc' = "poll"
    /\ UNCHANGED <<task_queue, result_queue, worker_pc, task, connection,
                   connected, n_submitted, received_ids, hist, conn_vars,
                   fs_vars, app_vars>>

CallerStep == PollRecv \/ PollEmpty \/ FrameEnd

\* The tasks the caller draws from under SpecBurst and FairBurst; the
\* operation tasks there are the ListDirectory tasks that poll_worker sends.
BurstTasks == {t \in Tasks : t.kind \in {"Connect", "Disconnect"}}

\* A widget handler sends a task whatever is outstanding: no handler of
\* render_ui looks at the tasks sent before or waits for their results.
SendTaskUpTo(max) ==
    /\ ui_pc = "widgets"
    /\ n_submitted < max
    /\ ~Channel_full(task_queue)
    /\ \E t \in BurstTasks :
           task_queue' = Enqueue(task_queue, t, n_submitted)
    /\ n_submitted' = n_submitted + 1
    /\ UNCHANGED <<result_queue, worker_pc, task, connection, ui_pc,
                   connected, received_ids, hist, conn_vars, fs_vars,
                   app_vars>>

SendTaskBurst == SendTaskUpTo(MaxTasks)

SendTaskFairBurst == SendTaskUpTo(MaxBurst)

\* A call of the session that never returns (TcpStream::connect and the
\* SFTP requests are made without a timeout): the worker stays in the arm.
WorkerHang ==
    /\ worker_pc = "exec"
    /\ worker_pc' = "hung"
    /\ UNCHANGED <<task_queue, result_queue, task, connection, ui_pc,
                   connected, n_submitted, received_ids, hist, conn_vars,
                   fs_vars, app_vars>>

(* ---------------------- SSHConnection on its own ---------------------- *)

\* A call on sc and what it returned.
Call(name, res) == [name |-> name, res |-> res]

ConnNew ==
    /\ Len(sc_calls) < MaxCalls
    /\ \E h \in Hostnames, u \in Usernames, p \in Passwords, port \in Ports :
           sc' = SSHConnection_new(h, u, p, port)
    /\ sc_calls' = <<>>
    /\ sc_pre' = sc'
    /\ UNCHANGED <<dispatch_vars, fs_vars>>

ConnConnect ==
    /\ Len(sc_calls) < MaxCalls
    /\ \E fail_step \in 0..ConnectSteps :
         LET r == SSHConnection_connect(sc, fail_step)
         IN  /\ sc' = r.conn
             /\ sc_calls' = Append(sc_calls, Call("connect", r.res))
    /\ sc_pre' = sc
    /\ UNCHANGED <<dispatch_vars, fs_vars>>

ConnDisconnect ==
    /\ Len(sc_calls) < MaxCalls
    /\ sc' = SSHConnection_disconnect(sc)
    /\ sc_calls' = Append(sc_calls, Call("disconnect", "ok"))
    /\ sc_pre' = sc
    /\ UNCHANGED <<dispatch_vars, fs_vars>>

ConnOperation ==
    /\ Len(sc_calls) < MaxCalls
    /\ \E k \in OperationKinds, outcome \in RemoteOutcomes :
           sc_calls' = Append(sc_calls,
                              Call(k, SSHConnection_operation(sc, k, outcome)))
    /\ sc_pre' = sc
    /\ UNCHANGED <<sc, dispatch_vars, fs_vars>>

(* ------------------- names, entries and file contents ------------------ *)

\* A file name is the sequence of the bytes of its UTF-8 text (String).
Name_A     == <<65>>                        \* "A"
Name_Z     == <<90>>                        \* "Z"
Name_a     == <<97>>                        \* "a"
Name_a_txt == <<97, 46, 116, 120, 116>>     \* "a.txt"
Name_b_txt == <<98, 46, 116, 120, 116>>     \* "b.txt"

\* The names the server's directory may hold.
Names == {Name_A, Name_Z, Name_a_txt, Name_b_txt}

\* A remote path is its parent directory and its last component. "/d" is a
\* directory of the server; "/x" does not exist on the server.
RemoteDirs  == {"/d"}
MissingDirs == {"/x"}
Path(dir, name) == [dir |-> dir, name |-> name]
RemotePaths == {Path(d, n) : d \in RemoteDirs, n \in Names}

\* The content of a file is a sequence of runs of bytes, each run a range
\* [off, off + len) of one reference byte stream in which every offset holds
\* a different value; adjacent runs that continue each other are one run, so
\* two files hold the same bytes exactly when their contents are equal.
Bytes(off, len) == IF len = 0 THEN <<>> ELSE <<[off |-> off, len |-> len]>>

RECURSIVE ContentLen(_)
ContentLen(c) == IF c = <<>> THEN 0 ELSE Head(c).len + ContentLen(Tail(c))

\* c followed by d.
Concat(c, d) ==
    IF c = <<>> THEN d
    ELSE IF d = <<>> THEN c
    ELSE LET l == c[Len(c)]
             f == Head(d)
         IN  IF l.off + l.len = f.off
             THEN SubSeq(c, 1, Len(c) - 1)
                      \o <<[off |-> l.off, len |-> l.len + f.len]>>
                      \o Tail(d)
             ELSE c \o d

\* The n bytes of c that start at position pos (fewer at the end of c).
RECURSIVE Slice(_, _, _)
Slice(c, pos, n) ==
    IF c = <<>> \/ n = 0 THEN <<>>
    ELSE LET h == Head(c)
         IN  IF pos >= h.len
             THEN Slice(Tail(c), pos - h.len, n)
             ELSE LET k == IF h.len - pos < n THEN h.len - pos ELSE n
                  IN  Concat(Bytes(h.off + pos, k), Slice(Tail(c), 0, n - k))

\* What a path holds: nothing, a directory, or a file and its content.
Absent  == [kind |-> "absent", data |-> <<>>]
Dir     == [kind |-> "dir", data |-> <<>>]
File(c) == [kind |-> "file", data |-> c]

EntryAt(fs, p) == IF p \in DOMAIN fs THEN fs[p] ELSE Absent

\* The result of a call: "ok" or the error text, and the value returned.
Ret(res, out) == [res |-> res, out |-> out]

(* --------------------------- list_directory --------------------------- *)

StrCmp_descending(s, t) ==
    IF s = t THEN "Equal"
    ELSE LET RECURSIVE Lt(_, _)
             Lt(x, y) == IF y = <<>> THEN FALSE
                         ELSE IF x = <<>> THEN TRUE
                         ELSE IF Head(x) # Head(y) THEN Head(x) < Head(y)
                         ELSE Lt(Tail(x), Tail(y))
         IN  IF Lt(s, t) THEN "Greater" ELSE "Less"

\* String's Ord: lexicographic comparison of the bytes.
RECURSIVE StrCmp(_, _)
StrCmp(s, t) ==
    IF s = <<>> THEN (IF t = <<>> THEN "Equal" ELSE "Less")
    ELSE IF t = <<>> THEN "Greater"
    ELSE IF Head(s) < Head(t) THEN "Less"
    ELSE IF Head(s) > Head(t) THEN "Greater"
    ELSE StrCmp(Tail(s), Tail(t))

EntryCmp_names_only(a, b) == StrCmp(a[1], b[1])

\* The closure given to sort_by; an entry is the pair (name, is_dir).
EntryCmp(a, b) ==
    IF a[2] /\ ~b[2] THEN "Less"
    ELSE IF ~a[2] /\ b[2] THEN "Greater"
    ELSE StrCmp(a[1], b[1])

\* slice::sort_by, a stable sort: each element is placed after the elements
\* already placed that do not compare Greater than it.
RECURSIVE InsertSorted(_, _)
InsertSorted(sorted, e) ==
    IF sorted = <<>> THEN <<e>>
    ELSE IF EntryCmp(Head(sorted), e) = "Greater" THEN <<e>> \o sorted
    ELSE <<Head(sorted)>> \o InsertSorted(Tail(sorted), e)

RECURSIVE sort_by(_)
sort_by(v) ==
    IF v = <<>> THEN <<>>
    ELSE InsertSorted(sort_by(SubSeq(v, 1, Len(v) - 1)), v[Len(v)])

\* The orders in which readdir may return the members of a set.
Orderings(S) ==
    {s \in [1..Cardinality(S) -> S] :
        \A i, j \in 1..Cardinality(S) : s[i] = s[j] => i = j}

\* Sftp::readdir: the (path, stat) pairs of the children of dir.
Children(fs, dir) ==
    {<<p.name, fs[p].kind = "dir">> : p \in {q \in DOMAIN fs :
                                         q.dir = dir /\ fs[q] # Absent}}

\* list_directory(path): readdir answers with the children in the order
\* `order`, or fails (always when path is not a directory of the server).
SSHConnection_list_directory(conn, fs, dir, order, outcome) ==
    IF conn.sftp = None THEN Ret("SFTP subsystem not initialized.", <<>>)
    ELSE IF dir \notin RemoteDirs \/ outcome # "ok"
    THEN Ret("Failed to read directory: <e>", <<>>)
    ELSE Ret("ok", sort_by(order))

(* ------------------------- the SFTP subsystem ------------------------- *)

\* The remote paths the operations are called with: one in the directory
\* "/d" and one whose parent directory does not exist; rename is also called
\* with a second path in "/d".
OpPaths == {Path("/d", Name_a_txt), Path("/x", Name_a_txt)}
RenamePaths == OpPaths \cup {Path("/d", Name_b_txt)}

\* The texts write_file is called with: the empty text, a text of five bytes
\* and a text of three other bytes.
Texts == {<<>>, Bytes(0, 5), Bytes(100, 3)}

\* The effect of a call: its result, the value returned, the file system
\* it leaves.
Eff(res, out, fs) == [res |-> res, out |-> out, fs |-> fs]

ParentExists(p) == p.dir \in RemoteDirs

\* What the server answers to a request, when the transport does not fail:
\* whether it accepts it and the file system after it.
Served(ok, fs) == [ok |-> ok, fs |-> fs]

\* Sftp::open (read only): opens an existing file.
Sftp_open(fs, p) == Served(EntryAt(fs, p).kind = "file", fs)

Sftp_create_keeps_content(fs, p) ==
    IF ParentExists(p) /\ EntryAt(fs, p).kind # "dir"
    THEN Served(TRUE, IF fs[p].kind = "file" THEN fs
                      ELSE [fs EXCEPT ![p] = File(<<>>)])
    ELSE Served(FALSE, fs)

\* Sftp::create: opens write-only with truncation, creating the file if the
\* path holds nothing; the parent directory must exist and the path must not
\* hold a directory.
Sftp_create(fs, p) ==
    IF ParentExists(p) /\ EntryAt(fs, p).kind # "dir"
    THEN Served(TRUE, [fs EXCEPT ![p] = File(<<>>)])
    ELSE Served(FALSE, fs)

\* Sftp::mkdir: the parent directory must exist and the path hold nothing.
Sftp_mkdir(fs, p) ==
    IF ParentExists(p) /\ EntryAt(fs, p).kind = "absent"
    THEN Served(TRUE, [fs EXCEPT ![p] = Dir])
    ELSE Served(FALSE, fs)

\* Sftp::unlink: removes a file.
Sftp_unlink(fs, p) ==
    IF EntryAt(fs, p).kind = "file"
    THEN Served(TRUE, [fs EXCEPT ![p] = Absent])
    ELSE Served(FALSE, fs)

\* Sftp::rename(old, new, None): moves what old holds to new. Whether a
\* server replaces what new already holds (or accepts old = new) is the
\* server's choice (`overwrite`).
Sftp_rename(fs, old, new, overwrite) ==
    IF EntryAt(fs, old).kind = "absent" \/ ~ParentExists(new)
    THEN Served(FALSE, fs)
    ELSE IF old = new THEN Served(overwrite, fs)
    ELSE IF EntryAt(fs, new).kind # "absent" /\ ~overwrite
    THEN Served(FALSE, fs)
    ELSE Served(TRUE, [fs EXCEPT ![new] = fs[old], ![old] = Absent])

\* The numbers of bytes a failing write_all may have written of n bytes.
PartialWrites == {0, 4096}
WrittenBeforeFailure(buf) ==
    IF buf = <<>> THEN {<<>>}
    ELSE {Slice(buf, 0, k) : k \in {j \in PartialWrites : j < ContentLen(buf)}}

\* Write::write_all(buf) on a file that holds `data`: all of buf is appended,
\* or the call fails after part of it; an empty buf is never written.
write_all(data, buf, fails, part) ==
    IF buf = <<>> THEN [ok |-> TRUE, data |-> data]
    ELSE IF fails THEN [ok |-> FALSE, data |-> Concat(data, part)]
    ELSE [ok |-> TRUE, data |-> Concat(data, buf)]

(* ---------------------- the remote file operations -------------------- *)

\* In the operations below fail_at names the remote call the transport
\* fails at (0: none), and a call the server refuses fails as well.

SSHConnection_delete_file_unchecked(conn, fs, p, fail_at) ==
    LET r == Sftp_unlink(fs, p)
    IN  IF fail_at = 1 \/ ~r.ok
        THEN Eff("Failed to delete file: <e>", <<>>, fs)
        ELSE Eff("ok", <<>>, r.fs)

SSHConnection_delete_file(conn, fs, p, fail_at) ==
    IF conn.sftp = None THEN Eff("SFTP subsystem not initialized.", <<>>, fs)
    ELSE LET r == Sftp_unlink(fs, p)
         IN  IF fail_at = 1 \/ ~r.ok
             THEN Eff("Failed to delete file: <e>", <<>>, fs)
             ELSE Eff("ok", <<>>, r.fs)

SSHConnection_read_file(conn, fs, p, fail_at) ==
    IF conn.sftp = None THEN Eff("SFTP subsystem not initialized.", <<>>, fs)
    ELSE IF fail_at = 1 \/ ~Sftp_open(fs, p).ok
    THEN Eff("Failed to open file: <e>", <<>>, fs)
    ELSE IF fail_at = 2 THEN Eff("Failed to read file: <e>", <<>>, fs)
    ELSE Eff("ok", fs[p].data, fs)

SSHConnection_write_file_appends(conn, fs, p, content, fail_at, part) ==
    IF conn.sftp = None THEN Eff("SFTP subsystem not initialized.", <<>>, fs)
    ELSE LET c == Sftp_create_keeps_content(fs, p)
         IN  IF fail_at = 1 \/ ~c.ok
             THEN Eff("Failed to create file: <e>", <<>>, fs)
             ELSE LET w == write_all(c.fs[p].data, content, fail_at = 2, part)
                      after == [c.fs EXCEPT ![p] = File(w.data)]
                  IN  IF ~w.ok
                      THEN Eff("Failed to write file: <e>", <<>>, after)
                      ELSE Eff("ok", <<>>, after)

SSHConnection_write_file(conn, fs, p, content, fail_at, part) ==
    IF conn.sftp = None THEN Eff("SFTP subsystem not initialized.", <<>>, fs)
    ELSE LET c == Sftp_create(fs, p)
         IN  IF fail_at = 1 \/ ~c.ok
             THEN Eff("Failed to create file: <e>", <<>>, fs)
             ELSE LET w == write_all(c.fs[p].data, content, fail_at = 2, part)
                      after == [c.fs EXCEPT ![p] = File(w.data)]
                  IN  IF ~w.ok
                      THEN Eff("Failed to write file: <e>", <<>>, after)
                      ELSE Eff("ok", <<>>, after)

SSHConnection_rename_swapped(conn, fs, old, new, fail_at, overwrite) ==
    IF conn.sftp = None THEN Eff("SFTP session not initialized.", <<>>, fs)
    ELSE LET r == Sftp_rename(fs, new, old, overwrite)
         IN  IF fail_at = 1 \/ ~r.ok
             THEN Eff("Failed to rename: <e>", <<>>, fs)
             ELSE Eff("ok", <<>>, r.fs)

SSHConnection_rename(conn, fs, old, new, fail_at, overwrite) ==
    IF conn.sftp = None THEN Eff("SFTP session not initialized.", <<>>, fs)
    ELSE LET r == Sftp_rename(fs, old, new, overwrite)
         IN  IF fail_at = 1 \/ ~r.ok
             THEN Eff("Failed to rename: <e>", <<>>, fs)
             ELSE Eff("ok", <<>>, r.fs)

SSHConnection_create_directory(conn, fs, p, fail_at) ==
    IF conn.sftp = None THEN Eff("SFTP subsystem not initialized.", <<>>, fs)
    ELSE LET r == Sftp_mkdir(fs, p)
         IN  IF fail_at = 1 \/ ~r.ok
             THEN Eff("Failed to create directory: <e>", <<>>, fs)
             ELSE Eff("ok", <<>>, r.fs)

\* create_file: Sftp::create, then write_all(b"").
SSHConnection_create_file(conn, fs, p, fail_at) ==
    IF conn.sftp = None THEN Eff("SFTP subsystem not initialized.", <<>>, fs)
    ELSE LET c == Sftp_create(fs, p)
         IN  IF fail_at = 1 \/ ~c.ok
             THEN Eff("Failed to create file: <e>", <<>>, fs)
             ELSE LET w == write_all(c.fs[p].data, <<>>, fail_at = 2, <<>>)
                      after == [c.fs EXCEPT ![p] = File(w.data)]
                  IN  IF ~w.ok
                      THEN Eff("Failed to initialize file: <e>", <<>>, after)
                      ELSE Eff("ok", <<>>, after)

(* ------------------------------ fetch_stats --------------------------- *)

\* The numbers of whitespace-separated fields a command may print: none, one
\* fewer than process_stats reads, or as many as it reads.
FieldCounts(needed) == {0, needed - 1, needed}

\* The error of the step of run_command that fails.
RunCommandErrorText(step) ==
    CASE step = 1 -> "Failed to open channel: <e>"
      [] step = 2 -> "Failed to exec command <cmd>: <e>"
      [] step = 3 -> "Failed to read command output: <e>"
      [] step = 4 -> "Failed to close channel: <e>"

\* process_stats indexes the fields of the three outputs without checking
\* how many there are: an index out of bounds panics.
process_stats(cpu, mem, disk) ==
    IF cpu < CpuFields \/ mem < MemFields \/ disk < DiskFields
    THEN "panic"
    ELSE "ok"

\* fetch_stats: fail_cmd is the command (1 cpu, 2 mem, 3 disk) whose
\* run_command fails at `step`, 0 if none does; cpu, mem and disk are the
\* numbers of fields of the outputs.
SSHConnection_fetch_stats(conn, fail_cmd, step, cpu, mem, disk) ==
    IF conn.session = None THEN Ret("Session not initialized.", <<>>)
    ELSE IF fail_cmd # 0 THEN Ret(RunCommandErrorText(step), <<>>)
    ELSE Ret(process_stats(cpu, mem, disk), <<cpu, mem, disk>>)

(* ---------------- an SSHConnection and the two file systems ----------- *)

LocalPaths == {"l1", "l2"}

EmptyRemote == [p \in RemotePaths |-> Absent]
EmptyLocal  == [p \in LocalPaths |-> Absent]

NoCall == [name |-> "none", args |-> <<>>, fault |-> 0, res |-> "ok",
           out |-> <<>>]
NoTransfer == [op |-> "none", rpath |-> "", lpath |-> "", pos |-> 0,
               buf |-> <<>>, pc |-> "idle", started |-> 0]

(* ----------------------- download_file, upload_file ------------------- *)

\* The byte counts, smaller than the count asked for, that a read may return
\* before the end of the file.
ShortReads == {4096}

Min(a, b) == IF a < b THEN a ELSE b

\* Read::read(&mut buffer) with `left` bytes left in the file: 0 at the end
\* of the file, otherwise up to BufferSize bytes.
ReadCounts(left) ==
    IF left = 0 THEN {0}
    ELSE {Min(BufferSize, left)}
             \cup {k \in ShortReads : k < Min(BufferSize, left)}

LoopEnds_OnShortRead(bytes_read) == bytes_read < BufferSize

\* `if bytes_read == 0 { break; }`
LoopEnds(bytes_read) == bytes_read = 0

\* A transfer whose two files are open: nothing read yet.
Opened(op, r, l, started) ==
    [op |-> op, rpath |-> r, lpath |-> l, pos |-> 0, buf |-> <<>>,
     pc |-> "read", started |-> started]

Idle(started) == [NoTransfer EXCEPT !.started = started]

AfterChunkError_Continues(x) == [x EXCEPT !.pc = "read", !.buf = <<>>]

\* `?` on a failed read or write_all of the loop: the function returns.
AfterChunkError(x) == Idle(x.started)

\* What the opening part of a transfer leaves: res is "opened" or the error.
Opening(res, rfs, lfs) == [res |-> res, remote |-> rfs, localfs |-> lfs]

\* download_file up to the loop: sftp.open(remote_path), File::create(local).
SSHConnection_download_file_creates_first(conn, rfs, lfs, r, l, fail_at) ==
    IF conn.sftp = None
    THEN Opening("SFTP subsystem not initialized.", rfs, lfs)
    ELSE IF fail_at = 2
    THEN Opening("Failed to create local file: <e>", rfs, lfs)
    ELSE IF fail_at = 1 \/ ~Sftp_open(rfs, r).ok
    THEN Opening("Failed to open remote file: <e>", rfs,
                 [lfs EXCEPT ![l] = File(<<>>)])
    ELSE Opening("opened", rfs, [lfs EXCEPT ![l] = File(<<>>)])

SSHConnection_download_file_open(conn, rfs, lfs, r, l, fail_at) ==
    IF conn.sftp = None
    THEN Opening("SFTP subsystem not initialized.", rfs, lfs)
    ELSE IF fail_at = 1 \/ ~Sftp_open(rfs, r).ok
    THEN Opening("Failed to open remote file: <e>", rfs, lfs)
    ELSE IF fail_at = 2
    THEN Opening("Failed to create local file: <e>", rfs, lfs)
    ELSE Opening("opened", rfs, [lfs EXCEPT ![l] = File(<<>>)])

\* upload_file up to the loop: File::open(local_path), sftp.open_mode(
\* remote_path, WRITE | CREATE | TRUNCATE, 0o644, File).
SSHConnection_upload_file_open(conn, rfs, lfs, l, r, fail_at) ==
    IF conn.sftp = None
    THEN Opening("SFTP subsystem not initialized.", rfs, lfs)
    ELSE IF fail_at = 1 \/ lfs[l].kind # "file"
    THEN Opening("Failed to open local file: <e>", rfs, lfs)
    ELSE IF fail_at = 2 \/ ~Sftp_create(rfs, r).ok
    THEN Opening("Failed to open remote file: <e>", rfs, lfs)
    ELSE Opening("opened", Sftp_create(rfs, r).fs, lfs)

\* The texts of the loop's errors.
ChunkErrorText(op, pc) ==
    CASE op = "download_file" /\ pc = "read"
             -> "Error reading from remote file: <e>"
      [] op = "download_file" /\ pc = "write"
             -> "Error writing to local file: <e>"
      [] op = "upload_file" /\ pc = "read"
             -> "Error reading from local file: <e>"
      [] op = "upload_file" /\ pc = "write"
             -> "Error writing to remote file: <e>"

\* What fs_prev keeps of a call: its name, its arguments, whether it succeeded.
Summary(call) ==
    [name |-> call.name, args |-> call.args, ok |-> call.res = "ok"]

\* A call returns: the ghost variables record it and the state it was made in.
\* (fault: the remote call at which the transport failed, 0 if it did not).
Returned(name, args, fault, ret) ==
    /\ fs_prev' = Summary(fs_last)
    /\ fs_last' = [name |-> name, args |-> args, fault |-> fault,
                   res |-> ret.res, out |-> ret.out]

\* The transfer in progress returns; fs_last holds it since its files were
\* opened, with the result "running".
Finishes(fault, ret) ==
    /\ fs_last' = [fs_last EXCEPT !.fault = fault, !.res = ret.res,
                                  !.out = ret.out]
    /\ UNCHANGED fs_prev

\* A call is made: fs_pre records the state it is made in.
Called == fs_pre' = [remote |-> remote, localfs |-> localfs, sc |-> sc]

Returns(name, args, fault, ret) ==
    Called /\ Returned(name, args, fault, ret)

\* The files that exist when the program starts: the server's and the local
\* ones belong to the environment.
EnvSetupFrom(RemoteWorlds, LocalWorlds) ==
    /\ fs_last.name = "none" /\ xfer.op = "none"
    /\ remote = EmptyRemote /\ localfs = EmptyLocal
    /\ remote' \in RemoteWorlds
    /\ localfs' \in LocalWorlds
    /\ UNCHANGED <<xfer, fs_last, fs_prev, fs_pre, conn_vars, dispatch_vars>>

FsConnect ==
    /\ xfer.op = "none"
    /\ \E fail_step \in 0..ConnectSteps :
         LET r == SSHConnection_connect(sc, fail_step)
         IN  /\ sc' = r.conn
             /\ Returns("connect", <<>>, fail_step, Ret(r.res, <<>>))
    /\ UNCHANGED <<remote, localfs, xfer, sc_calls, sc_pre, dispatch_vars>>

\* The library call connect() makes at each of its steps.
ConnectStepName_auth_before_handshake(k) ==
    CASE k = 1 -> "TcpStream::connect"
      [] k = 2 -> "Session::new"
      [] k = 3 -> "userauth_password"
      [] k = 4 -> "handshake"
      [] k = 5 -> "authenticated"
      [] k = 6 -> "sftp"

ConnectStepName(k) ==
    CASE k = 1 -> "TcpStream::connect"
      [] k = 2 -> "Session::new"
      [] k = 3 -> "handshake"
      [] k = 4 -> "userauth_password"
      [] k = 5 -> "authenticated"
      [] k = 6 -> "sftp"

\* connect() in progress: sc_calls holds the library calls it has made, in
\* order, each with its outcome. The next call is made only if the last
\* one succeeded (`?` and `return Err` leave the function otherwise).
ConnectStep ==
    /\ xfer.op = "none"
    /\ Len(sc_calls) < ConnectSteps
    /\ sc_calls # <<>> => sc_calls[Len(sc_calls)].res = "ok"
    /\ \E outcome \in RemoteOutcomes :
           sc_calls' = Append(sc_calls,
                              Call(ConnectStepName(Len(sc_calls) + 1), outcome))
    /\ UNCHANGED <<sc, sc_pre, fs_vars, dispatch_vars>>

\* connect() returns: after the call that failed, or after the last call.
\* The ghost fs_last keeps the calls made as the arguments of the connect.
ConnectReturn ==
    /\ sc_calls # <<>>
    /\ sc_calls[Len(sc_calls)].res # "ok" \/ Len(sc_calls) = ConnectSteps
    /\ LET fail_step == IF sc_calls[Len(sc_calls)].res = "ok" THEN 0
                        ELSE Len(sc_calls)
           r == SSHConnection_connect(sc, fail_step)
       IN  /\ sc' = r.conn
           /\ Returns("connect", sc_calls, fail_step, Ret(r.res, <<>>))
    /\ sc_calls' = <<>>
    /\ sc_pre' = sc
    /\ UNCHANGED <<remote, localfs, xfer, dispatch_vars>>

FsDisconnect ==
    /\ xfer.op = "none"
    /\ sc' = SSHConnection_disconnect(sc)
    /\ Returns("disconnect", <<>>, 0, Ret("ok", <<>>))
    /\ UNCHANGED <<remote, localfs, xfer, sc_calls, sc_pre, dispatch_vars>>

FsListDirectory ==
    /\ xfer.op = "none"
    /\ \E dir \in RemoteDirs \cup MissingDirs, outcome \in RemoteOutcomes :
         \E order \in Orderings(Children(remote, dir)) :
            LET r == SSHConnection_list_directory(sc, remote, dir, order,
                                                  outcome)
            IN  Returns("list_directory", <<dir>>,
                        IF outcome = "ok" THEN 0 ELSE 1,
                        Ret(r.res, [readdir |-> order, listing |-> r.out]))
    /\ UNCHANGED <<remote, localfs, xfer, conn_vars, dispatch_vars>>

\* The directories list_directory is checked on: any set of names, each a
\* directory or a file.
ListWorlds == [RemotePaths -> {Absent, Dir, File(<<>>)}]

EnvSetupList == EnvSetupFrom(ListWorlds, {EmptyLocal})

FsReadFile ==
    /\ xfer.op = "none"
    /\ \E p \in OpPaths, fail_at \in 0..2 :
         LET e == SSHConnection_read_file(sc, remote, p, fail_at)
         IN  Returns("read_file", <<p>>, fail_at, Ret(e.res, e.out))
    /\ UNCHANGED <<remote, localfs, xfer, conn_vars, dispatch_vars>>

FsWriteFile ==
    /\ xfer.op = "none"
    /\ \E p \in OpPaths, content \in Texts, fail_at \in 0..2 :
         \E part \in WrittenBeforeFailure(content) :
            LET e == SSHConnection_write_file(sc, remote, p, content,
                                              fail_at, part)
            IN  /\ remote' = e.fs
                /\ Returns("write_file", <<p, content>>, fail_at,
                           Ret(e.res, e.out))
    /\ UNCHANGED <<localfs, xfer, conn_vars, dispatch_vars>>

FsCreateFile ==
    /\ xfer.op = "none"
    /\ \E p \in OpPaths, fail_at \in 0..2 :
         LET e == SSHConnection_create_file(sc, remote, p, fail_at)
         IN  /\ remote' = e.fs
             /\ Returns("create_file", <<p>>, fail_at, Ret(e.res, e.out))
    /\ UNCHANGED <<localfs, xfer, conn_vars, dispatch_vars>>

FsCreateDirectory ==
    /\ xfer.op = "none"
    /\ \E p \in OpPaths, fail_at \in 0..1 :
         LET e == SSHConnection_create_directory(sc, remote, p, fail_at)
         IN  /\ remote' = e.fs
             /\ Returns("create_directory", <<p>>, fail_at, Ret(e.res, e.out))
    /\ UNCHANGED <<localfs, xfer, conn_vars, dispatch_vars>>

FsDeleteFile ==
    /\ xfer.op = "none"
    /\ \E p \in OpPaths, fail_at \in 0..1 :
         LET e == SSHConnection_delete_file(sc, remote, p, fail_at)
         IN  /\ remote' = e.fs
             /\ Returns("delete_file", <<p>>, fail_at, Ret(e.res, e.out))
    /\ UNCHANGED <<localfs, xfer, conn_vars, dispatch_vars>>

FsRename ==
    /\ xfer.op = "none"
    /\ \E old \in RenamePaths, new \in RenamePaths, fail_at \in 0..1,
          overwrite \in BOOLEAN :
         LET e == SSHConnection_rename(sc, remote, old, new, fail_at,
                                       overwrite)
         IN  /\ remote' = e.fs
             /\ Returns("rename", <<old, new>>, fail_at, Ret(e.res, e.out))
    /\ UNCHANGED <<localfs, xfer, conn_vars, dispatch_vars>>

\* The servers on which each of the names N is absent, a directory or a file
\* holding one of the texts, and no other name is present.
WorldsOver(N) ==
    {w \in [RemotePaths -> {Absent, Dir} \cup {File(t) : t \in Texts}] :
        \A p \in RemotePaths : p.name \notin N => w[p] = Absent}

FileWorlds   == WorldsOver({Name_a_txt})
RenameWorlds == WorldsOver({Name_a_txt, Name_b_txt})

EnvSetupFile   == EnvSetupFrom(FileWorlds, {EmptyLocal})
EnvSetupRename == EnvSetupFrom(RenameWorlds, {EmptyLocal})

\* The source and destination contents of the transfer in progress, and the
\* number of bytes of the chunks it has written whole.
XferSrc(x) ==
    IF x.op = "download_file" THEN remote[x.rpath].data
    ELSE localfs[x.lpath].data
XferDst(x) ==
    IF x.op = "download_file" THEN localfs[x.lpath].data
    ELSE remote[x.rpath].data
Copied(x) == x.pos - ContentLen(x.buf)

FsDownloadFile ==
    /\ xfer.op = "none" /\ xfer.started < MaxTransfers
    /\ \E r \in OpPaths, l \in LocalPaths, fail_at \in 0..2 :
         LET o == SSHConnection_download_file_open(sc, remote, localfs, r, l,
                                                   fail_at)
         IN  /\ remote' = o.remote
             /\ localfs' = o.localfs
             /\ IF o.res = "opened"
                THEN /\ xfer' = Opened("download_file", r, l, xfer.started + 1)
                     /\ Returns("download_file", <<r, l>>, 0,
                                Ret("running", 0))
                ELSE /\ Returns("download_file", <<r, l>>, fail_at,
                                Ret(o.res, Copied(xfer)))
                     /\ UNCHANGED xfer
    /\ UNCHANGED <<conn_vars, dispatch_vars>>

FsUploadFile ==
    /\ xfer.op = "none" /\ xfer.started < MaxTransfers
    /\ \E l \in LocalPaths, r \in OpPaths, fail_at \in 0..2 :
         LET o == SSHConnection_upload_file_open(sc, remote, localfs, l, r,
                                                 fail_at)
         IN  /\ remote' = o.remote
             /\ localfs' = o.localfs
             /\ IF o.res = "opened"
                THEN /\ xfer' = Opened("upload_file", r, l, xfer.started + 1)
                     /\ Returns("upload_file", <<l, r>>, 0,
                                Ret("running", 0))
                ELSE /\ Returns("upload_file", <<l, r>>, fail_at,
                                Ret(o.res, Copied(xfer)))
                     /\ UNCHANGED xfer
    /\ UNCHANGED <<conn_vars, dispatch_vars>>

\* The loop of the transfer meets an error: the call returns it, unless the
\* transfer goes on.
ChunkError(pc) ==
    LET x == AfterChunkError(xfer)
    IN  /\ xfer' = x
        /\ IF x.op = "none"
           THEN Finishes(3, Ret(ChunkErrorText(xfer.op, pc), Copied(xfer)))
           ELSE UNCHANGED <<fs_last, fs_prev>>

\* One read of the loop: an error, the end of the loop, or a chunk.
XferRead ==
    /\ xfer.pc = "read"
    /\ \/ ChunkError("read")
       \/ \E bytes_read \in ReadCounts(ContentLen(XferSrc(xfer)) - xfer.pos) :
            IF LoopEnds(bytes_read)
            THEN /\ xfer' = Idle(xfer.started)
                 /\ Finishes(0, Ret("ok", Copied(xfer)))
            ELSE /\ xfer' = [xfer EXCEPT
                                !.buf = Slice(XferSrc(xfer), xfer.pos,
                                              bytes_read),
                                !.pos = @ + bytes_read,
                                !.pc = "write"]
                 /\ UNCHANGED <<fs_last, fs_prev>>
    /\ UNCHANGED <<remote, localfs, fs_pre, conn_vars, dispatch_vars>>

\* One write_all of the loop: the chunk is appended to the destination, or
\* part of it is and the write fails.
XferWrite ==
    /\ xfer.pc = "write"
    /\ \E fails \in BOOLEAN, part \in WrittenBeforeFailure(xfer.buf) :
         LET w == write_all(XferDst(xfer), xfer.buf, fails, part)
         IN  /\ IF xfer.op = "download_file"
                THEN /\ localfs' = [localfs EXCEPT
                                       ![xfer.lpath] = File(w.data)]
                     /\ UNCHANGED remote
                ELSE /\ remote' = [remote EXCEPT ![xfer.rpath] = File(w.data)]
                     /\ UNCHANGED localfs
             /\ IF w.ok
                THEN /\ xfer' = [xfer EXCEPT !.buf = <<>>, !.pc = "read"]
                     /\ UNCHANGED <<fs_last, fs_prev>>
                ELSE ChunkError("write")
    /\ UNCHANGED <<fs_pre, conn_vars, dispatch_vars>>

\* The local files the transfers are checked on: "l1" is an empty file, a
\* file shorter than the buffer, one of exactly the buffer's size or one of
\* two buffers and a half; "l2" does not exist.
FileSizes == {0, 100, 8192, 20480}
CopyLocalWorlds ==
    {[p \in LocalPaths |-> IF p = "l1" THEN File(Bytes(0, n)) ELSE Absent] :
        n \in FileSizes}

EnvSetupCopy == EnvSetupFrom({EmptyRemote}, CopyLocalWorlds)

FsFetchStats ==
    /\ xfer.op = "none"
    /\ \/ \E fail_cmd \in 1..3, step \in 1..4 :
            Returns("fetch_stats", <<>>, fail_cmd,
                    SSHConnection_fetch_stats(sc, fail_cmd, step, 0, 0, 0))
       \/ \E cpu \in FieldCounts(CpuFields), mem \in FieldCounts(MemFields),
             disk \in FieldCounts(DiskFields) :
            Returns("fetch_stats", <<>>, 0,
                    SSHConnection_fetch_stats(sc, 0, 1, cpu, mem, disk))
    /\ UNCHANGED <<remote, localfs, xfer, conn_vars, dispatch_vars>>

\* The files the operations find when they are called on a session that is
\* not connected: a remote file of five bytes and a local file of a hundred.
OfflineRemote ==
    [p \in RemotePaths |->
        IF p.name = Name_a_txt THEN File(Bytes(0, 5)) ELSE Absent]
OfflineLocal ==
    [p \in LocalPaths |-> IF p = "l1" THEN File(Bytes(0, 100)) ELSE Absent]

EnvSetupOffline == EnvSetupFrom({OfflineRemote}, {OfflineLocal})

\* An operation called while the session is disconnected.
Offline(Operation) == sc.session = None /\ Operation

(* --------------------------- specifications --------------------------- *)

(* ------------------------------ the caller ---------------------------- *)

\* UIState::default, for the fields that poll_worker assigns besides
\* `connected`: the listing shown, the edit buffer, the status message and
\* the in-progress flag. An Option<String> is None or the string itself.
\* The ghost `last` is the result poll_worker handled last: its variant and
\* "ok" or the error it carries.
\* current_path is a string, kept as its bytes. '/' is byte 47.
Slash == 47
Root == <<Slash>>
NoPath == <<>>

\* str::trim_end_matches('/')
RECURSIVE trim_end_matches(_)
trim_end_matches(path) ==
    IF path # <<>> /\ path[Len(path)] = Slash
    THEN trim_end_matches(SubSeq(path, 1, Len(path) - 1))
    ELSE path

\* str::rfind('/'): the position of the last '/', counted from 1; 0 stands
\* for None.
rfind(path) ==
    IF \E i \in DOMAIN path : path[i] = Slash
    THEN CHOOSE i \in DOMAIN path :
             /\ path[i] = Slash
             /\ \A j \in DOMAIN path : path[j] = Slash => j <= i
    ELSE 0

\* format!("{}/{}", current_path.trim_end_matches('/'), name)
EnterPath(path, name) == trim_end_matches(path) \o <<Slash>> \o name

\* The up button's path: truncate at the last '/', "/" if nothing is left.
UpPath(path) ==
    IF SubSeq(path, 1, rfind(path) - 1) = <<>> THEN Root
    ELSE SubSeq(path, 1, rfind(path) - 1)

\* The paths typed into the path field: "A" and "/A/".
TypedPaths == {Name_A, <<Slash>> \o Name_A \o <<Slash>>}

\* `listed` is a ghost: the path whose listing `files` holds.
UIState_default ==
    [current_path |-> Root,
     listed |-> NoPath,
     files |-> <<>>,
     file_content |-> "",
     editing_file |-> None,
     error_message |-> None,
     operation_in_progress |-> FALSE,
     last |-> [kind |-> "none", err |-> "ok"]]

\* What a successful result carries: the listing of ListDirectoryResult,
\* the text of ReadFileResult, nothing for the others.
Listings == {<<>>, <<<<Name_A, TRUE>>, <<Name_a_txt, FALSE>>>>}
Contents == {"", "text"}
Payloads(r) ==
    IF r.err # "ok" THEN {<<>>}
    ELSE CASE r.kind = "ListDirectoryResult" -> Listings
           [] r.kind = "ReadFileResult"      -> Contents
           [] OTHER                          -> {<<>>}

\* The status message each arm of poll_worker assigns on success; the Ok arm
\* of ConnectResult assigns none.
SuccessMessage(msg, kind) ==
    CASE kind = "ConnectResult"         -> msg
      [] kind = "ListDirectoryResult"   -> None
      [] kind = "CreateDirectoryResult" -> "Directory created successfully."
      [] kind = "CreateFileResult"      -> "File created successfully."
      [] kind = "DownloadFileResult"    -> "Download successful"
      [] kind = "UploadFileResult"      -> "Upload successful"
      [] kind = "DeleteFileResult"      -> "File deleted successfully."
      [] kind = "RenameFileResult"      -> "File renamed successfully."
      [] kind = "ReadFileResult"        -> "File content loaded."
      [] kind = "WriteFileResult"       -> "File saved successfully."
      [] kind = "DisconnectResult"      -> "Disconnected"

\* state.files after the arm of result r.
FilesAfter_ClearedOnError(files, r, payload) ==
    CASE r.kind = "ListDirectoryResult" ->
             (IF r.err = "ok" THEN payload ELSE <<>>)
      [] r.kind = "DisconnectResult"    -> <<>>
      [] OTHER                          -> files

FilesAfter(files, r, payload) ==
    CASE r.kind = "ListDirectoryResult" /\ r.err = "ok" -> payload
      [] r.kind = "DisconnectResult"                    -> <<>>
      [] OTHER                                          -> files

\* One iteration of poll_worker's loop on result r, for the fields of `ui`:
\* the flag is cleared first and set again by the arms that send a task.
poll_worker_arm(u, r, payload) ==
    [current_path |-> IF r.kind = "DisconnectResult"
                         \/ (r.kind = "ConnectResult" /\ r.err = "ok")
                      THEN Root ELSE u.current_path,
     listed |-> CASE r.kind = "ListDirectoryResult" /\ r.err = "ok" ->
                         (IF r.path = <<>> THEN NoPath ELSE r.path[1])
                  [] r.kind = "DisconnectResult" -> NoPath
                  [] OTHER -> u.listed,
     files |-> FilesAfter(u.files, r, payload),
     file_content |-> IF r.kind = "ReadFileResult" /\ r.err = "ok"
                      THEN payload ELSE u.file_content,
     editing_file |-> IF r.kind = "WriteFileResult" /\ r.err = "ok"
                      THEN None ELSE u.editing_file,
     error_message |-> IF r.err # "ok" THEN r.err
                       ELSE SuccessMessage(u.error_message, r.kind),
     operation_in_progress |-> FollowUp(r) # <<>>,
     last |-> [kind |-> r.kind, err |-> r.err]]

\* The iteration with the fields of `ui`.
UiPollRecv ==
    /\ result_queue # <<>>
    /\ PollRecvAt(<<poll_worker_arm(ui, Head(result_queue),
                                    <<>>).current_path>>)
    /\ \E payload \in Payloads(Head(result_queue)) :
           ui' = poll_worker_arm(ui, Head(result_queue), payload)

\* A widget handler that sends a task of kind k: it sets the flag and calls
\* send_task.
Click(k) ==
    /\ ui_pc = "widgets"
    /\ n_submitted < MaxTasks
    /\ ~Channel_full(task_queue)
    /\ \E t \in {x \in Tasks : x.kind = k} :
           task_queue' = Enqueue(task_queue, t, n_submitted)
    /\ n_submitted' = n_submitted + 1
    /\ ui' = [ui EXCEPT !.operation_in_progress = TRUE]
    /\ UNCHANGED <<result_queue, worker_pc, task, connection, ui_pc,
                   connected, received_ids, hist, conn_vars, fs_vars,
                   slots, runs>>

\* The connect button, drawn while the caller is not connected.
ClickConnectButton == ~connected /\ Click("Connect")

\* A handler that sets current_path to path and sends ListDirectory for it.
Navigate(path) ==
    /\ ui_pc = "widgets"
    /\ n_submitted < MaxTasks
    /\ ~Channel_full(task_queue)
    /\ task_queue' = Enqueue(task_queue,
                             [kind |-> "ListDirectory", id |-> 0,
                              args |-> <<path>>],
                             n_submitted)
    /\ n_submitted' = n_submitted + 1
    /\ ui' = [ui EXCEPT !.current_path = path,
                        !.operation_in_progress = TRUE]
    /\ UNCHANGED <<result_queue, worker_pc, task, connection, ui_pc,
                   connected, received_ids, hist, conn_vars, fs_vars,
                   slots, runs>>

\* Enter pressed in the path field with the path as it stands: drawn while
\* connected.
ClickListDirectory == connected /\ Navigate(ui.current_path)

\* A path typed into the path field, then Enter.
NavTyped == connected /\ \E path \in TypedPaths : Navigate(path)

\* The up button: nothing happens when the path holds no '/'.
NavUp ==
    /\ connected
    /\ rfind(ui.current_path) # 0
    /\ Navigate(UpPath(ui.current_path))

\* The home button.
NavHome == connected /\ Navigate(Root)

\* The button of a directory of the listing shown.
NavEnter ==
    /\ connected
    /\ \E i \in DOMAIN ui.files :
           /\ ui.files[i][2]
           /\ Navigate(EnterPath(ui.current_path, ui.files[i][1]))

\* The two create buttons and the upload button (with a name typed or a
\* file picked): drawn while connected.
ClickCreateOrUpload ==
    /\ connected
    /\ \E k \in {"CreateDirectory", "CreateFile", "UploadFile"} : Click(k)

\* The buttons of an entry of the listing shown: delete on any entry,
\* download and modify on a file, and the save button of a rename.
ClickEntry ==
    /\ connected
    /\ \E i \in DOMAIN ui.files :
           \/ Click("DeleteFile")
           \/ Click("RenameFile")
           \/ ~ui.files[i][2] /\ (Click("DownloadFile") \/ Click("ReadFile"))

\* The disconnect button, drawn while connected.
ClickDisconnect == connected /\ Click("Disconnect")

\* The buttons, for a user who presses MaxClicks of them at most and then
\* leaves the window alone.
ClickSome ==
    /\ n_submitted < MaxClicks
    /\ \/ ClickConnectButton
       \/ ClickListDirectory
       \/ ClickCreateOrUpload
       \/ ClickEntry
       \/ ClickDisconnect

\* A step of render_ui's frame loop.
UiCallerStep == UiPollRecv \/ PollEmpty \/ FrameEnd

\* The window is closed between two frames: run_native returns and App is
\* dropped, with it UIState and the BackgroundWorker, field by field in
\* the order of declaration. First task_sender, the only task sender.
DropTaskSender ==
    /\ ui_pc = "poll"
    /\ slots.task_sender
    /\ ui_pc' = "closed"
    /\ slots' = [slots EXCEPT !.task_sender = FALSE]
    /\ UNCHANGED <<task_queue, result_queue, worker_pc, task, connection,
                   connected, n_submitted, received_ids, hist, conn_vars,
                   fs_vars, ui, runs>>

\* Then result_receiver: the results still buffered go with it.
DropResultReceiver ==
    /\ ui_pc = "closed"
    /\ slots.result_receiver
    /\ slots' = [slots EXCEPT !.result_receiver = FALSE]
    /\ result_queue' = <<>>
    /\ hist' = [hist EXCEPT !.dropped = Len(result_queue)]
    /\ UNCHANGED <<task_queue, worker_pc, task, connection, ui_pc,
                   connected, n_submitted, received_ids, conn_vars,
                   fs_vars, ui, runs>>

\* main returns and the process ends, wherever the detached worker thread
\* is at that moment.
ProcessExit ==
    /\ ui_pc = "closed"
    /\ ~slots.result_receiver
    /\ worker_pc \notin {"exited", "killed"}
    /\ worker_pc' = "killed"
    /\ UNCHANGED <<task_queue, result_queue, task, connection, ui_pc,
                   connected, n_submitted, received_ids, hist, conn_vars,
                   fs_vars, app_vars>>

\* The session slots on the caller's side as they are built: the struct
\* literal of BackgroundWorker::new and App::default.
BackgroundWorker_new_connection == NoConnection

App_default_connection_held ==
    <<[conn |-> [SSHConnection_new("h", "u", "p", 22) EXCEPT
                    !.session = Some, !.sftp = Some],
       id |-> 0]>>

App_default_connection == NoConnection

(* ----------------------- the saved connections ------------------------ *)

\* What the user can type into the connection form.
FormHostnames == {"h"}
FormUsernames == {"u"}
FormPasswords == {"p", "q"}
FormPorts     == {2222}

\* The SSHConnectionData the save handler builds from the form.
SSHConnectionData_of_with_secret(st) ==
    [hostname |-> st.hostname, username |-> st.password, port |-> st.port]

SSHConnectionData_of(st) ==
    [hostname |-> st.hostname, username |-> st.username, port |-> st.port]

\* serde_json::to_string of a Vec<SSHConnectionData>: an array with one
\* object per element, each the three fields by name.
to_string(connections) ==
    [i \in DOMAIN connections |->
        <<"hostname", connections[i].hostname,
          "username", connections[i].username,
          "port", connections[i].port>>]

\* serde_json::from_str of such a text.
from_str(content) ==
    [i \in DOMAIN content |->
        [hostname |-> content[i][2],
         username |-> content[i][4],
         port     |-> content[i][6]]]

\* CONNECTIONS_FILE does not exist.
NoFile == [exists |-> FALSE, content |-> <<>>]

\* load_saved_connections.
load_saved_connections(file) ==
    IF file.exists THEN from_str(file.content) ELSE <<>>

\* save_connections.
save_connections(connections) ==
    [exists |-> TRUE, content |-> to_string(connections)]

\* The files the program may find when it starts.
StartFiles ==
    {NoFile,
     save_connections(<<[hostname |-> "h", username |-> "u", port |-> 22]>>)}

\* UIState::default, for the connection form: the fields, the saved
\* connections loaded from the file and, as ghosts, the file itself and
\* the password of the last Connect task sent.
UIState_form(file) ==
    [started |-> TRUE,
     hostname |-> "",
     username |-> "",
     password |-> "",
     port |-> 22,
     saved_connections |-> load_saved_connections(file),
     file |-> file,
     sent |-> <<>>]

\* SpecSave has not started its two runs.
NoRun == [UIState_form(NoFile) EXCEPT !.started = FALSE]

Contains(v, x) == \E i \in DOMAIN v : v[i] = x

\* The "save current connection" handler on one run.
save_current_connection(st) ==
    LET new_conn == SSHConnectionData_of(st)
    IN  IF ~Contains(st.saved_connections, new_conn)
        THEN LET saved == Append(st.saved_connections, new_conn)
             IN  [st EXCEPT !.saved_connections = saved,
                            !.file = save_connections(saved)]
        ELSE st

\* The "connect" handler on one run: the password goes into the task.
connect_button(st) == [st EXCEPT !.sent = <<st.password>>]

\* A button of the saved-connections list on one run.
select_saved(st, i) ==
    [st EXCEPT !.hostname = st.saved_connections[i].hostname,
               !.username = st.saved_connections[i].username,
               !.port     = st.saved_connections[i].port]

\* The same step taken in both runs.
Both(run1, run2) ==
    /\ runs[1].started
    /\ runs' = <<run1, run2>>
    /\ UNCHANGED <<task_queue, result_queue, worker_pc, task, connection,
                   ui_pc, connected, n_submitted, received_ids, hist, ui,
                   slots, conn_vars, fs_vars>>

\* Two runs of the program start from the same file.
SaveStart ==
    /\ ~runs[1].started
    /\ \E file \in StartFiles :
           runs' = <<UIState_form(file), UIState_form(file)>>
    /\ UNCHANGED <<task_queue, result_queue, worker_pc, task, connection,
                   ui_pc, connected, n_submitted, received_ids, hist, ui,
                   slots, conn_vars, fs_vars>>

\* The user types the same hostname, username or port in both runs.
TypeHostname ==
    \E h \in FormHostnames :
        Both([runs[1] EXCEPT !.hostname = h], [runs[2] EXCEPT !.hostname = h])

TypeUsername ==
    \E u \in FormUsernames :
        Both([runs[1] EXCEPT !.username = u], [runs[2] EXCEPT !.username = u])

TypePort ==
    \E n \in FormPorts :
        Both([runs[1] EXCEPT !.port = n], [runs[2] EXCEPT !.port = n])

\* The user types a password in each run, not the same in both.
TypePassword ==
    \E p1, p2 \in FormPasswords :
        Both([runs[1] EXCEPT !.password = p1],
             [runs[2] EXCEPT !.password = p2])

SelectSaved ==
    \E i \in DOMAIN runs[1].saved_connections :
        /\ i \in DOMAIN runs[2].saved_connections
        /\ Both(select_saved(runs[1], i), select_saved(runs[2], i))

ClickSave ==
    /\ Len(runs[1].saved_connections) < MaxSaved
    /\ Both(save_current_connection(runs[1]), save_current_connection(runs[2]))

ClickConnect == Both(connect_button(runs[1]), connect_button(runs[2]))

Init ==
    /\ task_queue = <<>>
    /\ result_queue = <<>>
    /\ worker_pc = "recv"
    /\ task = NoTask
    /\ connection = NoConnection
    /\ ui_pc = "poll"
    /\ connected = FALSE
    /\ n_submitted = 0
    /\ received_ids = <<>>
    /\ hist = [connect |-> "none", prev |-> "none", ctl |-> "none",
               sess |-> 0, fails |-> 0, discs |-> 0, open |-> FALSE,
               lost |-> 0, dropped |-> 0]
    /\ ui = UIState_default
    /\ slots = [worker |-> BackgroundWorker_new_connection,
                app |-> App_default_connection,
                task_sender |-> TRUE,
                result_receiver |-> TRUE]
    /\ runs = <<NoRun, NoRun>>
    /\ sc = SSHConnection_new("h", "u", "p", 22)
    /\ sc_calls = <<>>
    /\ sc_pre = sc
    /\ remote = EmptyRemote
    /\ localfs = EmptyLocal
    /\ xfer = NoTransfer
    /\ fs_last = NoCall
    /\ fs_prev = Summary(NoCall)
    /\ fs_pre = [remote |-> remote, localfs |-> localfs, sc |-> sc]

Next ==
    \/ WorkerRecv
    \/ WorkerConnect
    \/ WorkerOperation
    \/ WorkerDisconnect
    \/ SendTask
    \/ PollRecv
    \/ PollEmpty
    \/ FrameEnd

Spec == Init /\ [][Next]_vars

NextFair ==
    \/ WorkerRecv
    \/ WorkerConnect
    \/ WorkerOperation
    \/ WorkerDisconnect
    \/ SendTaskFair
    \/ PollRecv
    \/ PollEmpty
    \/ FrameEnd

\* The worker thread runs whenever it can, and the caller's frame loop keeps
\* running (poll_worker is called at the start of every frame); the caller is
\* never obliged to send a task.
FairSpec ==
    /\ Init
    /\ [][NextFair]_vars
    /\ WF_vars(WorkerStep)
    /\ WF_vars(CallerStep)

\* The worker, which may hang in a call, and a caller that sends tasks
\* without regard to the tasks outstanding.
NextBurst ==
    \/ WorkerRecv
    \/ WorkerConnect
    \/ WorkerOperation
    \/ WorkerDisconnect
    \/ WorkerHang
    \/ SendTaskBurst
    \/ PollRecv
    \/ PollEmpty
    \/ FrameEnd

SpecBurst == Init /\ [][NextBurst]_vars

\* The worker, whose calls all return, and a caller that sends tasks without
\* regard to the tasks outstanding and polls when it pleases.
NextFairBurst ==
    \/ WorkerRecv
    \/ WorkerConnect
    \/ WorkerOperation
    \/ WorkerDisconnect
    \/ SendTaskFairBurst
    \/ PollRecv
    \/ PollEmpty
    \/ FrameEnd

\* The worker thread runs whenever it can. Nothing is assumed of the
\* caller: eframe calls render_ui, and with it poll_worker, only when the
\* window is repainted, so the caller may stop polling for good.
FairBurst == Init /\ [][NextFairBurst]_vars /\ WF_vars(WorkerStep)

\* The connection form of two runs that differ in the password typed.
NextSave ==
    \/ SaveStart
    \/ TypeHostname
    \/ TypeUsername
    \/ TypePort
    \/ TypePassword
    \/ SelectSaved
    \/ ClickSave
    \/ ClickConnect

SpecSave == Init /\ [][NextSave]_vars

\* One SSHConnection that connects, disconnects and fetches the server's
\* statistics.
NextStats == FsConnect \/ FsDisconnect \/ FsFetchStats

SpecStats == Init /\ [][NextStats]_vars

\* The worker and the caller as render_ui drives it: poll_worker, then the
\* widgets that the state shows. The save button of the edit window, which
\* sends WriteFile, is drawn only while editing_file is Some.
\* The worker and a caller whose window is closed at some moment.
NextExit ==
    \/ WorkerRecv
    \/ WorkerConnect
    \/ WorkerOperation
    \/ WorkerDisconnect
    \/ WorkerExit
    \/ SendTaskBurst
    \/ PollRecv
    \/ PollEmpty
    \/ FrameEnd
    \/ DropTaskSender
    \/ DropResultReceiver
    \/ ProcessExit

SpecExit == Init /\ [][NextExit]_vars

\* The caller with its fields, and a user who stops pressing buttons.
NextFairUI ==
    \/ WorkerRecv
    \/ WorkerConnect
    \/ WorkerOperation
    \/ WorkerDisconnect
    \/ ClickSome
    \/ UiPollRecv
    \/ PollEmpty
    \/ FrameEnd

\* The worker thread runs whenever it can and its calls return; the window
\* keeps being repainted, so render_ui and with it poll_worker keep being
\* called. The user is never obliged to press a button.
FairUI ==
    /\ Init
    /\ [][NextFairUI]_vars
    /\ WF_vars(WorkerStep)
    /\ WF_vars(UiCallerStep)

\* The caller of NextUI with the navigation of the remote tree.
NextNav ==
    \/ WorkerRecv
    \/ WorkerConnect
    \/ WorkerOperation
    \/ WorkerDisconnect
    \/ ClickConnectButton
    \/ NavTyped
    \/ NavUp
    \/ NavHome
    \/ NavEnter
    \/ ClickCreateOrUpload
    \/ ClickEntry
    \/ ClickDisconnect
    \/ UiPollRecv
    \/ PollEmpty
    \/ FrameEnd

SpecNav == Init /\ [][NextNav]_vars

NextUI ==
    \/ WorkerRecv
    \/ WorkerConnect
    \/ WorkerOperation
    \/ WorkerDisconnect
    \/ ClickConnectButton
    \/ ClickListDirectory
    \/ ClickCreateOrUpload
    \/ ClickEntry
    \/ ClickDisconnect
    \/ UiPollRecv
    \/ PollEmpty
    \/ FrameEnd

SpecUI == Init /\ [][NextUI]_vars

\* One SSHConnection whose connect() is followed call by call.
NextSteps == ConnectStep \/ ConnectReturn

SpecSteps == Init /\ [][NextSteps]_vars

NextConn == ConnNew \/ ConnConnect \/ ConnDisconnect \/ ConnOperation

SpecConn == Init /\ [][NextConn]_vars

\* One SSHConnection listing the directories of a server.
NextList == EnvSetupList \/ FsConnect \/ FsDisconnect \/ FsListDirectory

SpecList == Init /\ [][NextList]_vars

\* One SSHConnection writing and reading the files of a server.
NextFile == EnvSetupFile \/ FsConnect \/ FsWriteFile \/ FsReadFile

SpecFile == Init /\ [][NextFile]_vars

\* One SSHConnection creating files and directories on a server.
NextCreate == EnvSetupFile \/ FsConnect \/ FsCreateFile \/ FsCreateDirectory

SpecCreate == Init /\ [][NextCreate]_vars

\* One SSHConnection renaming the entries of a server and listing them.
NextRename == EnvSetupRename \/ FsConnect \/ FsRename \/ FsListDirectory

SpecRename == Init /\ [][NextRename]_vars

\* One SSHConnection uploading local files and downloading remote ones.
NextCopy ==
    \/ EnvSetupCopy
    \/ FsConnect
    \/ FsUploadFile
    \/ FsDownloadFile
    \/ XferRead
    \/ XferWrite

SpecCopy == Init /\ [][NextCopy]_vars

\* One SSHConnection that connects and disconnects, every other operation
\* being called while it is disconnected.
NextOffline ==
    \/ EnvSetupOffline
    \/ FsConnect
    \/ FsDisconnect
    \/ Offline(FsListDirectory)
    \/ Offline(FsReadFile)
    \/ Offline(FsWriteFile)
    \/ Offline(FsCreateDirectory)
    \/ Offline(FsCreateFile)
    \/ Offline(FsDeleteFile)
    \/ Offline(FsRename)
    \/ Offline(FsDownloadFile)
    \/ Offline(FsUploadFile)
    \/ Offline(FsFetchStats)

SpecOffline == Init /\ [][NextOffline]_vars

(* ------------------------------- claims ------------------------------- *)

Results == {result_queue[i] : i \in DOMAIN result_queue}

\* Number of tasks the worker has received, and number of results sent.
Dequeued == n_submitted - Len(task_queue)
Published == Len(received_ids) + Len(result_queue)

\* C1: results come back in the order the tasks were enqueued: the i-th
\* result polled belongs to the i-th task enqueued, and the results still
\* buffered, the task in execution and the tasks still queued follow in
\* submission order.
C1_ResultsInSubmissionOrder ==
    /\ received_ids = [i \in 1..Len(received_ids) |-> i]
    /\ \A i \in DOMAIN result_queue :
           result_queue[i].id = Len(received_ids) + i
    /\ worker_pc = "exec" => task.id = Published + 1
    /\ \A i \in DOMAIN task_queue : task_queue[i].id = Dequeued + i

\* C1 witness: two results polled and two more buffered behind them.
C1_Witness == Len(received_ids) >= 2 /\ Len(result_queue) >= 2

\* C2: with the worker and the poller scheduled fairly, the caller ends up
\* with exactly one result per submitted task, follow-up tasks included:
\* none lost, none duplicated.
C2_EveryTaskGetsOneResult ==
    <>[](received_ids = [i \in 1..n_submitted |-> i])

\* C2 witness: results of caller tasks and of a follow-up task all polled.
C2_Witness ==
    /\ n_submitted >= 3
    /\ Len(received_ids) = n_submitted
    /\ hist.sess > 0

\* C3: at most one task is in execution: the worker has received at most one
\* task more than it has published results, and exactly one more only while
\* it is executing.
C3_OneTaskAtATime ==
    Dequeued - Published = (IF worker_pc = "exec" THEN 1 ELSE 0)

\* C3 witness: a task enqueued behind the one in execution waits in the
\* channel, after earlier tasks have been executed.
C3_Witness ==
    /\ worker_pc = "exec"
    /\ task_queue # <<>>
    /\ Published >= 2

\* C4: after a failed Connect task the dispatcher holds no session, whatever
\* it held before, and operation tasks yield "Not connected" until a Connect
\* succeeds.
C4_FailedConnectLeavesNoSession ==
    /\ hist.connect = "failed" => connection = NoConnection
    /\ \A r \in Results :
           (r.task \in OperationKinds /\ r.before.connect = "failed")
               => r.err = "Not connected"

\* C5: after a successful Connect task, every operation task executed before
\* the next Connect or Disconnect task runs against the session that Connect
\* adopted and does not yield "Not connected".
C5_ConnectRestoresOperation ==
    /\ (hist.ctl = "Connect" /\ hist.connect = "ok")
           => /\ connection # NoConnection
              /\ connection[1].id = hist.sess
              /\ connection[1].conn.sftp = Some
    /\ \A r \in Results :
           (/\ r.task \in OperationKinds
            /\ r.before.ctl = "Connect"
            /\ r.before.connect = "ok")
               => /\ r.err # "Not connected"
                  /\ r.called
                  /\ r.sess = r.before.sess

\* C5 witness: an operation succeeded on a session adopted by a Connect that
\* followed a failed Connect.
C5_Witness ==
    \E r \in Results :
        /\ r.task \in OperationKinds
        /\ r.before.ctl = "Connect"
        /\ r.before.connect = "ok"
        /\ r.before.prev = "failed"
        /\ r.err = "ok"

\* C6: a task that ends in an error does not stop the dispatcher: after any
\* number of consecutive failures the worker is in its loop, takes the next
\* queued task, finishes the task it is executing, and no task is dropped.
C6_FailureDoesNotStopWorker ==
    hist.fails > 0 =>
        /\ worker_pc \in {"recv", "exec"}
        /\ (worker_pc = "recv" /\ task_queue # <<>>) => ENABLED WorkerRecv
        /\ worker_pc = "exec" => ENABLED WorkerStep
        /\ n_submitted = Published + Len(task_queue)
                           + (IF worker_pc = "exec" THEN 1 ELSE 0)

\* C6 witness: a result was published for a task that ran right after two
\* consecutive failures.
C6_Witness == \E r \in Results : r.before.fails >= 2

\* C7: with no session held, each operation task yields the result variant
\* of its own kind with the error "Not connected", calls no session
\* operation, and the worker neither stops nor blocks.
C7_NotConnectedWithoutSession ==
    /\ \A r \in Results :
           (r.task \in OperationKinds /\ ~r.held)
               => /\ r.kind = r.task \o "Result"
                  /\ r.err = "Not connected"
                  /\ ~r.called
    /\ (/\ worker_pc = "exec"
        /\ task.kind \in OperationKinds
        /\ connection = NoConnection) => ENABLED WorkerOperation
    /\ connection = NoConnection => worker_pc # "exited"

\* C7 witness: an operation task was answered "Not connected" after a
\* Disconnect task had released an adopted session.
C7_Witness ==
    \E r \in Results :
        /\ r.task \in OperationKinds
        /\ ~r.held
        /\ r.before.ctl = "Disconnect"
        /\ r.before.sess > 0

\* C8: every task variant yields the result variant of the same kind, in
\* success and in failure.
C8_ResultVariantMatchesTask ==
    \A r \in Results :
        /\ r.task \in TaskKinds
        /\ r.kind = r.task \o "Result"
        /\ r.kind \in ResultKinds

\* C8 witness: a successful and a failed result of different kinds are
\* buffered together.
C8_Witness ==
    \E r1, r2 \in Results :
        /\ r1.err = "ok"
        /\ r2.err # "ok"
        /\ r1.task # r2.task
        /\ r2.task # "Connect"

\* C9: a Disconnect task always yields DisconnectResult, which carries no
\* error, with or without a session adopted, and leaves the dispatcher
\* without a session; a second Disconnect in a row does the same.
C9_DisconnectAlwaysAcks ==
    /\ \A r \in Results :
           r.task = "Disconnect"
               => r.kind = "DisconnectResult" /\ r.err = "ok"
    /\ hist.discs >= 1 => connection = NoConnection
    /\ hist.ctl = "Disconnect" => connection = NoConnection

\* C9 witness: two Disconnect tasks ran in a row, the first with a session
\* adopted and the second without.
C9_Witness ==
    /\ hist.discs >= 2
    /\ \E i \in DOMAIN result_queue :
           /\ i + 1 \in DOMAIN result_queue
           /\ result_queue[i].task = "Disconnect"
           /\ result_queue[i].held
           /\ result_queue[i + 1].task = "Disconnect"
           /\ ~result_queue[i + 1].held

\* C10: SSHConnection::disconnect cannot fail and leaves both handles empty,
\* on a connected session, on a never-connected one and when repeated.
C10_DisconnectIdempotent ==
    (sc_calls # <<>> /\ sc_calls[Len(sc_calls)].name = "disconnect")
        => /\ sc.session = None
           /\ sc.sftp = None
           /\ sc_calls[Len(sc_calls)].res = "ok"

\* C10 witness: disconnect was called twice in a row on a session that had
\* connected.
C10_Witness ==
    /\ Len(sc_calls) = 3
    /\ sc_calls[1] = Call("connect", "ok")
    /\ sc_calls[2].name = "disconnect"
    /\ sc_calls[3].name = "disconnect"

\* C11: in every state of an SSHConnection, after any calls of new,
\* connect (succeeding or failing at any step), disconnect and the file
\* operations, sftp is present if and only if session is present.
C11_SftpIffSession == (sc.sftp = Some) <=> (sc.session = Some)

\* C11 witness: a session that connected after a failed attempt and then
\* served an operation.
C11_Witness ==
    /\ Len(sc_calls) = 3
    /\ sc_calls[1].name = "connect" /\ sc_calls[1].res # "ok"
    /\ sc_calls[2] = Call("connect", "ok")
    /\ sc_calls[3].name \in OperationKinds
    /\ sc.session = Some

\* C12: connect is all-or-nothing: when a step fails it returns that step's
\* error and assigns neither handle, so the session never holds one handle
\* without the other and, called on a session that is not connected (as
\* every connect of the program is: on a session just built by new), it
\* leaves the session disconnected, both handles empty.
C12_ConnectAllOrNothing ==
    (/\ sc_calls # <<>>
     /\ sc_calls[Len(sc_calls)].name = "connect"
     /\ sc_calls[Len(sc_calls)].res # "ok")
        => /\ sc_calls[Len(sc_calls)].res
                  \in {ConnectErrorText(k) : k \in 1..ConnectSteps}
           /\ (sc.session = None) <=> (sc.sftp = None)
           /\ sc.session = sc_pre.session /\ sc.sftp = sc_pre.sftp
           /\ sc_pre.session = None => (sc.session = None /\ sc.sftp = None)

\* C12 witness: connect failed at its last step, the subsystem
\* initialisation, on a session that was not connected.
C12_Witness ==
    /\ sc_calls # <<>>
    /\ sc_calls[Len(sc_calls)] = Call("connect", ConnectErrorText(ConnectSteps))
    /\ sc_pre.session = None

\* s comes before t in the lexicographic order of their bytes.
LexLess(s, t) ==
    \E k \in 1..Len(t) :
        /\ k - 1 <= Len(s)
        /\ \A i \in 1..(k - 1) : s[i] = t[i]
        /\ (Len(s) = k - 1 \/ s[k] < t[k])

AllEntries == {<<n, d>> : n \in Names \cup {Name_a, <<>>}, d \in BOOLEAN}

\* C14: a successful list_directory returns a permutation of the entries
\* readdir gave, every directory before every file and, within the
\* directories and within the files, the names in ascending byte order; the
\* comparison is a total order in which two entries compare equal only if
\* their names are equal (a fact about EntryCmp alone, which does not depend
\* on the state: it is evaluated where no call has been made yet).
C14_ListingSorted ==
    /\ (fs_last.name = "list_directory" /\ fs_last.res = "ok") =>
         LET in  == fs_last.out.readdir
             out == fs_last.out.listing
         IN  /\ Len(out) = Len(in)
             /\ {out[i] : i \in DOMAIN out} = {in[i] : i \in DOMAIN in}
             /\ {in[i] : i \in DOMAIN in} = Children(remote, fs_last.args[1])
             /\ \A i, j \in DOMAIN out :
                    i < j => /\ out[i][2] \/ ~out[j][2]
                             /\ out[i][2] = out[j][2]
                                    => LexLess(out[i][1], out[j][1])
    /\ fs_last.name = "none" => \A a, b \in AllEntries :
         /\ EntryCmp(a, b) = "Equal" => a[1] = b[1]
         /\ EntryCmp(a, a) = "Equal"
         /\ EntryCmp(a, b) = "Less" <=> EntryCmp(b, a) = "Greater"
         /\ \A c \in AllEntries :
              (EntryCmp(a, b) = "Less" /\ EntryCmp(b, c) = "Less")
                  => EntryCmp(a, c) = "Less"

\* C14 witness: a listing of two directories and two files that readdir gave
\* with a file first and the names of each kind in descending order.
C14_Witness ==
    /\ fs_last.name = "list_directory" /\ fs_last.res = "ok"
    /\ Len(fs_last.out.readdir) = 4
    /\ ~fs_last.out.readdir[1][2]
    /\ fs_last.out.readdir # fs_last.out.listing
    /\ Cardinality({i \in 1..4 : fs_last.out.listing[i][2]}) = 2

\* The directory of the example: "b.txt", "A", "a.txt", "Z", in that order.
ExampleOrder ==
    <<<<Name_b_txt, FALSE>>, <<Name_A, TRUE>>, <<Name_a_txt, FALSE>>,
      <<Name_Z, TRUE>>>>

ExampleListed ==
    /\ fs_last.name = "list_directory" /\ fs_last.res = "ok"
    /\ fs_last.out.readdir = ExampleOrder

\* C15 as stated: listing the entries ("b.txt", file), ("A", directory),
\* ("a.txt", file), ("Z", directory) returns "Z", "A", "a.txt", "b.txt".
C15_ExampleAsStated ==
    ExampleListed =>
        fs_last.out.listing = <<<<Name_Z, TRUE>>, <<Name_A, TRUE>>,
                                <<Name_a_txt, FALSE>>, <<Name_b_txt, FALSE>>>>

\* C15 amended: listing those entries returns "A", "Z", "a.txt", "b.txt":
\* the directories first and each kind in ascending order of its names.
C15_ExampleSorted ==
    ExampleListed =>
        fs_last.out.listing = <<<<Name_A, TRUE>>, <<Name_Z, TRUE>>,
                                <<Name_a_txt, FALSE>>, <<Name_b_txt, FALSE>>>>

\* C15 witness: the directory of the example was listed.
C15_Witness == ExampleListed /\ Len(fs_last.out.listing) = 4

\* C16: on a connected session write_file(path, c) leaves the path holding
\* exactly c whatever it held before, and a read_file(path) that is the next
\* call returns exactly c, unless the transport fails during the read.
C16_WriteThenRead ==
    /\ (fs_last.name = "write_file" /\ fs_last.res = "ok")
           => remote[fs_last.args[1]] = File(fs_last.args[2])
    /\ (/\ fs_prev.name = "write_file" /\ fs_prev.ok
        /\ fs_last.name = "read_file"
        /\ fs_last.args[1] = fs_prev.args[1]
        /\ fs_last.fault = 0)
           => fs_last.res = "ok" /\ fs_last.out = fs_prev.args[2]

\* C16 witness: the three bytes just written are read back.
C16_Witness ==
    /\ fs_prev.name = "write_file" /\ fs_prev.ok
    /\ fs_prev.args[2] = Bytes(100, 3)
    /\ fs_last.name = "read_file" /\ fs_last.res = "ok"
    /\ fs_last.args[1] = fs_prev.args[1]
    /\ fs_last.out = Bytes(100, 3)

\* C19 as stated: create_file on a path with an existing parent and no entry
\* produces a zero-length file; create_file and create_directory return an
\* error and change nothing on the server when the parent does not exist or
\* the path already holds an entry.
C19_CreateRefusesExistingEntry ==
    (fs_last.name \in {"create_file", "create_directory"}
        /\ fs_pre.sc.sftp = Some) =>
        LET p   == fs_last.args[1]
            was == EntryAt(fs_pre.remote, p)
        IN  /\ (fs_last.name = "create_file" /\ fs_last.res = "ok"
                    /\ ParentExists(p) /\ was = Absent)
                   => remote[p] = File(<<>>)
            /\ (~ParentExists(p) \/ was # Absent)
                   => fs_last.res # "ok" /\ remote = fs_pre.remote

\* C20: a successful rename(old, new) with old # new moves what old held to
\* new and changes no other entry, and a list_directory of new's parent that
\* is the next call and succeeds returns the entries the directory now
\* holds, new's name among them and old's name not.
C20_RenameThenList ==
    /\ (fs_last.name = "rename" /\ fs_last.res = "ok"
            /\ fs_last.args[1] # fs_last.args[2])
           => /\ remote[fs_last.args[2]] = fs_pre.remote[fs_last.args[1]]
              /\ remote[fs_last.args[1]] = Absent
              /\ \A p \in DOMAIN remote \ {fs_last.args[1], fs_last.args[2]} :
                     remote[p] = fs_pre.remote[p]
    /\ (/\ fs_prev.name = "rename" /\ fs_prev.ok
        /\ fs_prev.args[1] # fs_prev.args[2]
        /\ fs_last.name = "list_directory" /\ fs_last.res = "ok"
        /\ fs_last.args[1] = fs_prev.args[2].dir)
           => LET listing == fs_last.out.listing
                  listed  == {listing[i] : i \in DOMAIN listing}
              IN  /\ fs_prev.args[2].name \in {e[1] : e \in listed}
                  /\ fs_prev.args[1].dir = fs_last.args[1]
                         => fs_prev.args[1].name \notin {e[1] : e \in listed}
                  /\ listed = Children(remote, fs_last.args[1])
                  /\ Len(listing) = Cardinality(listed)

\* C20 witness: "a.txt" was renamed to "b.txt" and the directory then listed.
C20_Witness ==
    /\ fs_prev.name = "rename" /\ fs_prev.ok
    /\ fs_prev.args = <<Path("/d", Name_a_txt), Path("/d", Name_b_txt)>>
    /\ fs_last.name = "list_directory" /\ fs_last.res = "ok"
    /\ fs_last.out.listing # <<>>

\* C17: an upload_file(local, remote) that returns Ok leaves remote holding
\* exactly local's bytes, a download_file(remote, local2) that returns Ok
\* leaves local2 holding exactly remote's bytes, each having copied every
\* byte of its source in whole chunks, so that a successful upload followed
\* by a successful download of the same remote path makes local2 identical
\* to local.
C17_UploadThenDownload ==
    /\ (fs_last.name = "upload_file" /\ fs_last.res = "ok")
           => /\ remote[fs_last.args[2]] = localfs[fs_last.args[1]]
              /\ fs_last.out = ContentLen(localfs[fs_last.args[1]].data)
    /\ (fs_last.name = "download_file" /\ fs_last.res = "ok")
           => /\ localfs[fs_last.args[2]] = remote[fs_last.args[1]]
              /\ fs_last.out = ContentLen(remote[fs_last.args[1]].data)
    /\ (/\ fs_prev.name = "upload_file" /\ fs_prev.ok
        /\ fs_last.name = "download_file" /\ fs_last.res = "ok"
        /\ fs_last.args[1] = fs_prev.args[2])
           => /\ localfs[fs_last.args[2]].kind = "file"
              /\ localfs[fs_last.args[2]].data = localfs[fs_prev.args[1]].data

\* C17 witness: a file of two buffers and a half was uploaded from "l1" and
\* downloaded to "l2".
C17_Witness ==
    /\ fs_prev.name = "upload_file" /\ fs_prev.ok /\ fs_prev.args[1] = "l1"
    /\ fs_last.name = "download_file" /\ fs_last.res = "ok"
    /\ fs_last.args = <<fs_prev.args[2], "l2">>
    /\ localfs["l2"] = File(Bytes(0, 20480))

\* The source and the destination of the transfer recorded in fs_last.
LastSrc ==
    IF fs_last.name = "download_file" THEN remote[fs_last.args[1]]
    ELSE localfs[fs_last.args[1]]
LastDst ==
    IF fs_last.name = "download_file" THEN localfs[fs_last.args[2]]
    ELSE remote[fs_last.args[2]]

\* C18: while a transfer runs its destination holds exactly the chunks
\* written so far, in order; when a read or a write of the loop fails the
\* call returns that one error and copies nothing more: the destination is
\* still a file and holds a prefix of the source, made of the chunks written
\* before the failure and at most part of the chunk whose write failed.
C18_FailedTransferLeavesPrefix ==
    /\ xfer.op # "none"
           => XferDst(xfer) = Slice(XferSrc(xfer), 0, Copied(xfer))
    /\ (fs_last.name \in {"download_file", "upload_file"} /\ fs_last.fault = 3)
           => /\ xfer.op = "none"
              /\ fs_last.res \in {ChunkErrorText(fs_last.name, pc) :
                                     pc \in {"read", "write"}}
              /\ LastDst.kind = "file"
              /\ LastDst.data
                     = Slice(LastSrc.data, 0, ContentLen(LastDst.data))
              /\ fs_last.out <= ContentLen(LastDst.data)
              /\ ContentLen(LastDst.data) - fs_last.out < BufferSize

\* C18 witness: an upload failed in the write of its second chunk, part of
\* which reached the remote file.
C18_Witness ==
    /\ fs_last.name = "upload_file"
    /\ fs_last.res = "Error writing to remote file: <e>"
    /\ fs_last.out = BufferSize
    /\ ContentLen(LastDst.data) = BufferSize + 4096
    /\ ContentLen(LastSrc.data) = 20480

\* The operations of an SSHConnection other than connect and disconnect.
FileOperations ==
    {"list_directory", "read_file", "write_file", "create_directory",
     "create_file", "delete_file", "rename", "download_file", "upload_file",
     "fetch_stats"}

\* C13: every operation other than connect and disconnect, called while the
\* session is disconnected, returns an error value (it neither succeeds nor
\* panics nor starts a transfer) and leaves the remote files, the local
\* files and the session as they were.
C13_DisconnectedOperationFails ==
    (fs_last.name \in FileOperations /\ fs_pre.sc.session = None)
        => /\ fs_last.res \in {"SFTP subsystem not initialized.",
                               "SFTP session not initialized.",
                               "Session not initialized."}
           /\ xfer.op = "none"
           /\ remote = fs_pre.remote
           /\ localfs = fs_pre.localfs
           /\ sc = fs_pre.sc

\* C13 witness: upload_file called after connect and disconnect, with a
\* local file to read and a remote file to overwrite.
C13_Witness ==
    /\ fs_prev.name = "disconnect"
    /\ fs_last.name = "upload_file" /\ fs_last.args[1] = "l1"
    /\ fs_pre.sc.session = None
    /\ localfs["l1"].kind = "file"
    /\ remote[fs_last.args[2]].kind = "file"

\* The state of the caller: UIState, the session slots and the ghost count
\* of results polled.
CallerState == <<connected, ui, slots, received_ids>>

\* C21: the caller never waits for the worker. Whatever the worker does
\* (blocked in recv, executing, hung in a call for ever) and whatever the
\* two channels hold, a widget handler can send its task, poll_worker can
\* take a buffered result, and poll_worker with nothing buffered returns;
\* in that last case it changes neither the caller's state nor a channel.
C21_CallerNeverWaits ==
    /\ []((ui_pc = "widgets" /\ n_submitted < MaxTasks)
             => ENABLED SendTaskBurst)
    /\ []((ui_pc = "poll" /\ result_queue # <<>>) => ENABLED PollRecv)
    /\ []((ui_pc = "poll" /\ result_queue = <<>>) => ENABLED PollEmpty)
    /\ [][PollEmpty => UNCHANGED <<CallerState, task_queue, result_queue,
                                   n_submitted>>]_vars

\* C21 witness: the worker hangs in a call while a task waits in the queue
\* and a result is buffered, and the caller is about to send one more task.
C21_Witness ==
    /\ worker_pc = "hung"
    /\ task_queue # <<>>
    /\ result_queue # <<>>
    /\ ui_pc = "widgets"
    /\ n_submitted < MaxTasks

LiveSessions ==
    {connection[i].id : i \in {j \in DOMAIN connection :
                                  connection[j].conn.session = Some}}

\* C23: the dispatcher holds at most one adopted session. After any tasks
\* there are 0 or 1 live sessions, and there is 1 exactly when a Connect
\* task has succeeded and no Disconnect task has run since the last one
\* that did; the session held is then the one that Connect built, whatever
\* Connect tasks failed after it.
C23_AtMostOneSession ==
    /\ Len(connection) <= 1
    /\ Cardinality(LiveSessions) \in {0, 1}
    /\ Cardinality(LiveSessions) = 1 <=> hist.open
    /\ hist.open => LiveSessions = {hist.sess}
    /\ \A r \in Results : r.before.open <=> r.held

\* C23 witness: a Connect task failed right after one had succeeded, and
\* the session the latter adopted is still the one live session.
C23_Witness ==
    /\ hist.connect = "failed"
    /\ hist.prev = "ok"
    /\ hist.open
    /\ LiveSessions = {hist.sess}

\* The ids of the tasks, by where each task is: its result polled, its
\* result buffered, in execution, still queued.
TaskIds ==
    received_ids
        \o [i \in DOMAIN result_queue |-> result_queue[i].id]
        \o (IF worker_pc \in {"exec", "hung"} THEN <<task.id>> ELSE <<>>)
        \o [i \in DOMAIN task_queue |-> task_queue[i].id]

\* C24: every submitted task is received and executed once. Each task
\* sent is in exactly one place (queued, in execution, result buffered,
\* result polled), so none is executed twice and a failed one is not run
\* again; every result is for a task that was sent and that the worker had
\* received, and the worker has published one result per task it finished.
C24_EachTaskExecutedOnce ==
    /\ Len(TaskIds) = n_submitted
    /\ {TaskIds[i] : i \in DOMAIN TaskIds} = 1..n_submitted
    /\ \A r \in Results : r.id \in 1..n_submitted /\ r.id <= Dequeued
    /\ \A i, j \in DOMAIN result_queue :
           result_queue[i].id = result_queue[j].id => i = j
    /\ worker_pc \in {"exec", "hung"} =>
           /\ \A r \in Results : r.id # task.id
           /\ \A i \in DOMAIN received_ids : received_ids[i] # task.id
           /\ \A i \in DOMAIN task_queue : task_queue[i].id # task.id

\* C24 witness: a task failed, the worker went on to the next task, and the
\* results of both are buffered while a third task is in execution.
C24_Witness ==
    /\ worker_pc = "exec"
    /\ \E i \in DOMAIN result_queue :
           /\ i + 1 \in DOMAIN result_queue
           /\ result_queue[i].err # "ok"
           /\ result_queue[i + 1].id = result_queue[i].id + 1

\* C25: publishing a result never waits for the caller. The worker can
\* finish the task it executes whatever the result channel holds; the
\* buffer holds, in task order, the result of every task executed and not
\* yet polled; and with the worker scheduled fairly and nothing assumed of
\* the caller (it may never poll), every task sent ends up executed, all
\* results not polled being buffered.
C25_PublishNeverWaits ==
    /\ [](worker_pc = "exec" => ENABLED WorkerStep)
    /\ [](\A i \in DOMAIN result_queue :
              result_queue[i].id = Len(received_ids) + i)
    /\ [][Len(result_queue') < Len(result_queue)
            => (ui_pc = "poll" /\ result_queue' = Tail(result_queue))]_vars
    /\ <>[](/\ task_queue = <<>>
            /\ worker_pc = "recv"
            /\ Len(result_queue) = n_submitted - Len(received_ids))

\* C25 witness: the caller has not polled a single result and the results of
\* all the tasks it sent, as many as the bound on tasks allows, are buffered.
C25_Witness ==
    /\ received_ids = <<>>
    /\ n_submitted = MaxBurst
    /\ Len(result_queue) = MaxBurst
    /\ worker_pc = "recv"

\* The strings a file holds: the keys and the string values of every
\* object of its text (the sixth item of an object is the port, a number).
Persisted(file) ==
    UNION {{file.content[i][k] : k \in DOMAIN file.content[i] \ {6}} :
              i \in DOMAIN file.content}

\* C26: the password is never persisted. Two runs that start from the
\* same file and take the same steps, the password typed apart, have the
\* same file at every point; each object written holds the hostname, the
\* username and the port and nothing else, none of them a password typed.
C26_PasswordNotPersisted ==
    runs[1].started =>
        /\ runs[1].file = runs[2].file
        /\ runs[1].saved_connections = runs[2].saved_connections
        /\ \A n \in {1, 2} :
               /\ Persisted(runs[n].file) \cap FormPasswords = {}
               /\ \A i \in DOMAIN runs[n].file.content :
                      LET o == runs[n].file.content[i]
                      IN  /\ Len(o) = 6
                          /\ o[6] \in Nat
                          /\ <<o[1], o[3], o[5]>>
                                 = <<"hostname", "username", "port">>

\* C26 witness: the two runs typed different passwords, sent them in a
\* Connect task, and then saved a connection to the file.
C26_Witness ==
    /\ runs[1].started
    /\ runs[1].password # runs[2].password
    /\ runs[1].sent = <<runs[1].password>>
    /\ runs[2].sent = <<runs[2].password>>
    /\ runs[1].file.exists
    /\ Len(runs[1].file.content) >= 2
    /\ runs[1].file.content[2][4] = runs[1].username

\* C27: fetch_stats returns its outcome as a value whatever the commands
\* print: called on a connected session, its three commands having run,
\* with an output that has fewer fields than process_stats reads (16 for
\* the CPU line, 6 for the memory line, 5 for the disk line), it returns an
\* error and does not panic.
C27_ShortOutputIsError ==
    (/\ fs_last.name = "fetch_stats"
     /\ fs_last.fault = 0
     /\ fs_pre.sc.session = Some
     /\ \/ fs_last.out[1] < CpuFields
        \/ fs_last.out[2] < MemFields
        \/ fs_last.out[3] < DiskFields)
        => fs_last.res \notin {"ok", "panic"}

\* poll_worker handles, in this step, a result of variant kind that carries
\* an error.
HandlesFailed(kind) ==
    /\ ui_pc = "poll"
    /\ result_queue # <<>>
    /\ result_queue' = Tail(result_queue)
    /\ Head(result_queue).kind = kind
    /\ Head(result_queue).err # "ok"

\* C28: when poll_worker handles a failed ListDirectoryResult the listing
\* shown stays as it was, and when it handles a failed ReadFileResult the
\* edit buffer (file_content, editing_file) stays as it was; in both cases
\* nothing of UIState changes but the status message, which becomes the
\* error, and the in-progress flag, and no task is sent.
C28_FailureKeepsDisplayedState ==
    [][(HandlesFailed("ListDirectoryResult") \/ HandlesFailed("ReadFileResult"))
        => /\ ui'.files = ui.files
           /\ ui'.file_content = ui.file_content
           /\ ui'.editing_file = ui.editing_file
           /\ ui'.error_message = Head(result_queue).err
           /\ ui'.operation_in_progress = FALSE
           /\ UNCHANGED <<connected, slots, task_queue, n_submitted>>]_vars

\* C28 witness: with a listing shown and a text loaded, a ReadFileResult
\* that carries an error has been handled.
C28_Witness ==
    /\ ui.files # <<>>
    /\ ui.file_content # ""
    /\ ui.error_message
           = MapErrPrefix("ReadFile") \o OperationErrorPrefix("ReadFile")
               \o "<e>"
    /\ ~ui.operation_in_progress

\* The status messages that tell of a success: none, or the text of an Ok
\* arm of poll_worker.
SuccessMessages(kind) ==
    {None} \cup (IF kind = "ConnectResult" THEN {}
                 ELSE {SuccessMessage(None, kind)})

\* C29: once poll_worker has handled a result that carries an error, of
\* any variant, the status message is that error; and when a poll is over
\* the status message tells of the result handled last in it: its error if
\* it carries one, and no error of an earlier result if it does not.
C29_StatusReflectsLastResult ==
    /\ ui.last.err # "ok" => ui.error_message = ui.last.err
    /\ (ui_pc = "widgets" /\ ui.last.kind # "none" /\ ui.last.err = "ok")
           => ui.error_message \in SuccessMessages(ui.last.kind)

\* C30: operation_in_progress tells whether an operation is in progress:
\* after a step of the caller (a task sent, a poll over) it is true if a
\* task sent has not had its result handled, and false if there is none.
C30_FlagTellsOutstanding ==
    ui_pc = "widgets"
        => (ui.operation_in_progress <=> n_submitted > Len(received_ids))

\* The steps of connect in the order the claim gives them: transport dial,
\* session creation, handshake, credential exchange, authentication check,
\* subsystem initialisation.
ConnectOrder ==
    <<"TcpStream::connect", "Session::new", "handshake", "userauth_password",
      "authenticated", "sftp">>

\* The calls in `calls` are the first ones of ConnectOrder, in that order,
\* each made once, and all but the last one succeeded.
InConnectOrder(calls) ==
    /\ Len(calls) <= Len(ConnectOrder)
    /\ \A i \in DOMAIN calls : calls[i].name = ConnectOrder[i]
    /\ \A i \in DOMAIN calls : i < Len(calls) => calls[i].res = "ok"

\* C31: connect makes its steps in the fixed order, stops at the first one
\* that fails, makes no step after a failure and none twice, and returns
\* the error text of the step that failed, each step having its own; it
\* returns Ok only after all six steps succeeded.
C31_ConnectStepsInOrder ==
    /\ InConnectOrder(sc_calls)
    /\ \A j, k \in 1..ConnectSteps :
           ConnectErrorText(j) = ConnectErrorText(k) => j = k
    /\ fs_last.name = "connect" =>
           LET calls == fs_last.args
           IN  /\ calls # <<>>
               /\ InConnectOrder(calls)
               /\ fs_last.res = "ok" <=>
                      (Len(calls) = ConnectSteps
                       /\ calls[Len(calls)].res = "ok")
               /\ fs_last.res # "ok" =>
                      /\ calls[Len(calls)].res # "ok"
                      /\ fs_last.res = ConnectErrorText(Len(calls))

\* C31 witness: a connect stopped at the authentication check, after four
\* steps had succeeded, following a connect that had failed earlier on.
C31_Witness ==
    /\ fs_last.name = "connect"
    /\ Len(fs_last.args) = 5
    /\ fs_last.res = ConnectErrorText(5)
    /\ fs_prev.name = "connect"
    /\ ~fs_prev.ok

\* C32: a Connect task that fails leaves the worker's adopted session as it
\* was before the task (none stays none, an adopted one stays adopted), and
\* an operation task executed after the failure runs against the session
\* that was adopted before it.
C32_FailedConnectKeepsSession ==
    /\ [][(/\ worker_pc = "exec"
           /\ task.kind = "Connect"
           /\ Len(result_queue') = Len(result_queue) + 1
           /\ result_queue'[Len(result_queue')].id = task.id
           /\ result_queue'[Len(result_queue')].err # "ok")
              => connection' = connection]_vars
    /\ [](\A i \in DOMAIN result_queue :
             LET r == result_queue[i]
             IN  (/\ r.task \in OperationKinds
                  /\ r.before.connect = "failed"
                  /\ r.before.open)
                     => (r.held /\ r.called /\ r.sess = r.before.sess))

\* C32 witness: the worker holds a session although the last Connect
\* failed, and the result of an operation executed after that failure is
\* in the result channel.
C32_Witness ==
    /\ connection # NoConnection
    /\ hist.connect = "failed"
    /\ \E i \in DOMAIN result_queue :
           /\ result_queue[i].task \in OperationKinds
           /\ result_queue[i].before.connect = "failed"
           /\ result_queue[i].before.open
           /\ result_queue[i].called

\* Every submitted task has been executed and its result handled.
NoTaskOutstanding ==
    /\ task_queue = <<>>
    /\ result_queue = <<>>
    /\ worker_pc = "recv"
    /\ Len(received_ids) = n_submitted

\* C33: whenever no task is outstanding, the caller's connected flag tells
\* whether the worker holds an adopted session.
C33_ConnectedMatchesSession ==
    NoTaskOutstanding => (connected <=> connection # NoConnection)

\* C34: while the caller's connected flag is false the displayed file list
\* is empty.
C34_NoListingWhileDisconnected ==
    ~connected => ui.files = <<>>

\* The step is one iteration of poll_worker's loop.
PollIteration == ui_pc = "poll" /\ received_ids' # received_ids

\* C35: handling a successful ConnectResult, CreateDirectoryResult,
\* CreateFileResult, UploadFileResult, DeleteFileResult or RenameFileResult
\* sends exactly one task, a ListDirectory of the current path as it is when
\* the result is handled; handling a failed one of those, or any
\* ListDirectoryResult, ReadFileResult, WriteFileResult, DownloadFileResult
\* or DisconnectResult, sends no task.
C35_OneListingPerRefresh ==
    [][PollIteration =>
          LET r == Head(result_queue)
          IN  IF /\ r.err = "ok"
                 /\ r.kind \in {"ConnectResult", "CreateDirectoryResult",
                                "CreateFileResult", "UploadFileResult",
                                "DeleteFileResult", "RenameFileResult"}
              THEN /\ n_submitted' = n_submitted + 1
                   /\ Len(task_queue') = Len(task_queue) + 1
                   /\ SubSeq(task_queue', 1, Len(task_queue)) = task_queue
                   /\ task_queue'[Len(task_queue')].kind = "ListDirectory"
                   /\ task_queue'[Len(task_queue')].args
                          = <<ui'.current_path>>
              ELSE /\ n_submitted' = n_submitted
                   /\ task_queue' = task_queue]_vars

\* C35 witness: a DeleteFile succeeded while the caller had moved below the
\* root, and its ListDirectory, for that directory, is in the task channel.
C35_Witness ==
    /\ ui.last = [kind |-> "DeleteFileResult", err |-> "ok"]
    /\ ui.current_path # Root
    /\ task_queue # <<>>
    /\ task_queue[Len(task_queue)].kind = "ListDirectory"
    /\ task_queue[Len(task_queue)].args = <<ui.current_path>>
    /\ received_ids # <<>>
    /\ task_queue[Len(task_queue)].id > received_ids[Len(received_ids)]

\* C39: whenever the caller is connected and no task is outstanding, the
\* file list shown is the listing returned for the current path shown (a
\* list that was never filled is let pass).
C39_ListingIsOfCurrentPath ==
    (connected /\ NoTaskOutstanding /\ ui.listed # NoPath)
        => ui.listed = ui.current_path

\* The task channel and the result channel are empty and the worker waits
\* for a task.
Quiescent ==
    /\ task_queue = <<>>
    /\ result_queue = <<>>
    /\ worker_pc = "recv"

C37_LoopEndsOnlyAfterSendersGone ==
    /\ [](worker_pc = "exited" =>
             /\ ~slots.task_sender
             /\ task_queue = <<>>
             /\ Len(received_ids) + Len(result_queue)
                    + hist.dropped + hist.lost = n_submitted)
    /\ [][(worker_pc # "exited" /\ worker_pc' = "exited")
             => (worker_pc = "recv" /\ task_queue = <<>>)]_vars
    /\ [][(task' # task /\ task' # NoTask)
             => task'.id = Dequeued + 1]_vars

\* C37 witness: the loop has ended after the worker executed tasks whose
\* results could not be sent, one of them with an error.
C37_Witness ==
    /\ worker_pc = "exited"
    /\ hist.lost >= 2
    /\ hist.connect = "failed"
    /\ n_submitted = MaxTasks

\* C38: once the ReadFile task sent by the modify button has succeeded the
\* caller is editing the file: editing_file holds a path (and file_content
\* the text read), so that the edit window with its save button is drawn.
C38_ModifyOpensEditor ==
    (ui.last.kind = "ReadFileResult" /\ ui.last.err = "ok")
        => ui.editing_file # None

\* The errors download_file and upload_file return before their loop.
OpeningErrors ==
    {"SFTP subsystem not initialized.", "Failed to open remote file: <e>",
     "Failed to create local file: <e>", "Failed to open local file: <e>"}

\* C40: a download_file or upload_file that fails before its loop leaves
\* the local and the remote files as they were when it was called; so a
\* download of a missing remote file leaves the local file it names as it
\* was, and an upload of a missing local file the remote one.
C40_FailedOpenKeepsDestination ==
    (fs_last.name \in {"download_file", "upload_file"}
     /\ fs_last.res \in OpeningErrors)
        => (remote = fs_pre.remote /\ localfs = fs_pre.localfs)

\* C40 witness: an upload of a local file that does not exist has failed,
\* its remote destination being a file that holds bytes; the call before,
\* a download of a remote file that does not exist, had failed too, its
\* local destination being a file that holds bytes.
C40_Witness ==
    /\ sc.sftp = Some
    /\ fs_last.name = "upload_file"
    /\ fs_last.res = "Failed to open local file: <e>"
    /\ localfs[fs_last.args[1]].kind = "absent"
    /\ EntryAt(remote, fs_last.args[2]).kind = "file"
    /\ EntryAt(remote, fs_last.args[2]).data # <<>>
    /\ fs_prev.name = "download_file"
    /\ ~fs_prev.ok
    /\ EntryAt(remote, fs_prev.args[1]).kind = "absent"
    /\ localfs[fs_prev.args[2]].kind = "file"
    /\ localfs[fs_prev.args[2]].data # <<>>
====
